---- MODULE Spec2Model ----
(***************************************************************************)
(* A model of the reflow engine of sqlfluff: the ReflowSequence API        *)
(* (src/sqlfluff/utils/reflow/sequence.py) and the indent pass it drives   *)
(* (src/sqlfluff/utils/reflow/reindent.py).                                *)
(*                                                                         *)
(* Indices are 0-based as in the Python source; At(s, i) reads s[i].       *)
(***************************************************************************)
EXTENDS Integers, Sequences, FiniteSets, TLC

\* ------------------------------------------------------------ bounds
\* Largest number of raw segments in the parsed tree.
MaxRaws == 3

\* ------------------------------------------------------------ python helpers
Min(a, b) == IF a < b THEN a ELSE b
Max(a, b) == IF a > b THEN a ELSE b

At(s, i) == s[i + 1]

\* Body(v), with v evaluated once.
Bind(v, Body(_)) == CHOOSE r \in {Body(x) : x \in {v}} : TRUE

\* op folded over the sequence s from the left, starting from acc.
RECURSIVE FoldLeft(_, _, _)
FoldLeft(op(_, _), acc, s) ==
    IF s = <<>> THEN acc
    ELSE Bind(op(acc, Head(s)), LAMBDA a : FoldLeft(op, a, Tail(s)))

\* range(a, b)
Range(a, b) == [i \in 1..(b - a) |-> a + i - 1]

\* Python's s[start:stop] for a list s (negative bounds count from the end,
\* out-of-range bounds are clamped).
PyNorm(s, i) == IF i < 0 THEN Max(i + Len(s), 0) ELSE Min(i, Len(s))
PySlice(s, start, stop) == SubSeq(s, PyNorm(s, start) + 1, PyNorm(s, stop))
PyFrom(s, start) == PySlice(s, start, Len(s))
PyUpto(s, stop) == PySlice(s, 0, stop)

\* Python's list.index: the first 0-based position of x, NotFound for ValueError.
NotFound == -1
index(s, x) ==
    IF \E i \in 1..Len(s) : s[i] = x
    THEN (CHOOSE i \in 1..Len(s) : s[i] = x /\ \A j \in 1..(i - 1) : s[j] # x) - 1
    ELSE NotFound

Flatten(ss) == FoldLeft(LAMBDA a, e : a \o e, <<>>, ss)

\* ------------------------------------------------------------ tokens
\* A raw segment: uid is its identity; type its type tag; val carries
\*   whitespace        the length of its raw text (a run of spaces),
\*   indent / dedent   indent_val (+1 / -1),
\*   placeholder,
\*   template_loop     block_uuid (0: none; -1: a literal placeholder whose
\*                     consumed source is whitespace only, no block_uuid).
Seg(uid, type, val) == [uid |-> uid, type |-> type, val |-> val]

class_types_of(seg) ==
    IF seg.type = "dedent" THEN {"dedent", "indent"} ELSE {seg.type}
is_type(seg, types) == class_types_of(seg) \cap types # {}
is_code(seg) == seg.type = "code"

get_consumed_whitespace_isspace(seg) == seg.type = "placeholder" /\ seg.val = -1

DefaultVal(type) ==
    CASE type = "whitespace" -> 1
      [] type = "indent" -> 1
      [] type = "dedent" -> -1
      [] OTHER -> 0

\* ------------------------------------------------------------ elements
ReflowBlock(segs) == [kind |-> "block", segments |-> segs]
ReflowPoint(segs) == [kind |-> "point", segments |-> segs]
isPoint(elem) == elem.kind = "point"
isBlock(elem) == elem.kind = "block"

\* All segments of an element array, in order.
RawsOf(elems) == Flatten([i \in 1..Len(elems) |-> elems[i].segments])

\* ------------------------------------------------------------ fixes
LintFix(edit_type, anchor, edit) ==
    [edit_type |-> edit_type, anchor |-> anchor, edit |-> edit]
LintFix_delete(seg) == LintFix("delete", <<seg>>, <<>>)
LintFix_create_before(seg, edit) == LintFix("create_before", <<seg>>, edit)
LintFix_create_after(seg, edit) == LintFix("create_after", <<seg>>, edit)
LintFix_replace(anchor_raws, edit) == LintFix("replace", anchor_raws, edit)

\* ------------------------------------------------------------ depth map
\* The structural depth of a leaf of the tree.
TreeDepth == 2
DepthMap_from_raws(segments) ==
    [u \in {segments[i].uid : i \in 1..Len(segments)} |-> TreeDepth]
has_depth_info(dm, seg) == seg.uid \in DOMAIN dm
copy_depth_info(dm, anchor, new_segment, trim) ==
    [u \in (DOMAIN dm) \cup {new_segment.uid} |->
        IF u = new_segment.uid THEN dm[anchor.uid] - trim ELSE dm[u]]

\* ------------------------------------------------------------ the sequence
\* The outcome of a call: ok = FALSE stands for a raised exception (err names
\* it); depth_map and uid are the shared depth map and the uid counter as
\* the call leaves them, whether it succeeded or not.
Ok(elems, fixes, dm, uid) ==
    [ok |-> TRUE, err |-> "", elements |-> elems, embodied_fixes |-> fixes,
     depth_map |-> dm, uid |-> uid]
Raise(err, dm, uid) ==
    [ok |-> FALSE, err |-> err, elements |-> <<>>, embodied_fixes |-> <<>>,
     depth_map |-> dm, uid |-> uid]

\* A validation that only refuses the empty array.
validate_nonempty(elems) == Len(elems) > 0

\* ReflowSequence._validate_reflow_sequence: odd and even positions each hold
\* one kind, and not the same kind.
validate_reflow_sequence(elems) ==
    /\ Len(elems) > 0
    /\ LET OddType == At(elems, 0).kind
           EvenType == IF OddType = "block" THEN "point" ELSE "block"
       IN  /\ \A i \in 0..(Len(elems) - 1) : i % 2 = 0 => At(elems, i).kind = OddType
           /\ \A i \in 0..(Len(elems) - 1) : i % 2 = 1 => At(elems, i).kind = EvenType

\* ReflowSequence.__init__
ReflowSequence(elems, dm, fixes, uid) ==
    IF validate_reflow_sequence(elems)
    THEN Ok(elems, fixes, dm, uid)
    ELSE Raise("AssertionError", dm, uid)

\* A segment that goes into a point rather than a block.
is_point_like(seg) ==
    \/ is_type(seg, {"whitespace", "newline", "indent"})
    \/ get_consumed_whitespace_isspace(seg)

\* The loop body with a point put before a block only when spacing was
\* buffered (elif seg_buff).
elements_step_no_empty_point(b, seg) ==
    IF is_point_like(seg)
    THEN [b EXCEPT !.seg_buff = Append(@, seg)]
    ELSE LET with_point ==
                 IF b.seg_buff # <<>>
                 THEN Append(b.elem_buff, ReflowPoint(b.seg_buff))
                 ELSE b.elem_buff
         IN  [elem_buff |-> Append(with_point, ReflowBlock(<<seg>>)),
              seg_buff |-> <<>>]

\* One pass of the loop of _elements_from_raw_segments, on the buffers
\* b = [elem_buff, seg_buff].
elements_step(b, seg) ==
    IF is_point_like(seg)
    THEN [b EXCEPT !.seg_buff = Append(@, seg)]
    ELSE LET with_point ==
                 IF b.elem_buff # <<>> \/ b.seg_buff # <<>>
                 THEN Append(b.elem_buff, ReflowPoint(b.seg_buff))
                 ELSE b.elem_buff
         IN  [elem_buff |-> Append(with_point, ReflowBlock(<<seg>>)),
              seg_buff |-> <<>>]

\* ReflowSequence._elements_from_raw_segments
elements_from_raw_segments(segments) ==
    Bind(FoldLeft(elements_step, [elem_buff |-> <<>>, seg_buff |-> <<>>], segments),
         LAMBDA b : IF b.seg_buff # <<>>
                    THEN Append(b.elem_buff, ReflowPoint(b.seg_buff))
                    ELSE b.elem_buff)

\* Every block's segment must be known to the depth map (get_depth_info).
blocks_have_depth(segments, dm) ==
    \A i \in 1..Len(segments) :
        is_point_like(segments[i]) \/ has_depth_info(dm, segments[i])

\* ReflowSequence.from_raw_segments
from_raw_segments(segments, dm, uid) ==
    IF ~blocks_have_depth(segments, dm)
    THEN Raise("KeyError", dm, uid)
    ELSE ReflowSequence(elements_from_raw_segments(segments), dm, <<>>, uid)

\* ReflowSequence.from_root
from_root(raws, uid) == from_raw_segments(raws, DepthMap_from_raws(raws), uid)

\* for pre_idx in range(pre_idx, -1, -1): if all_raws[pre_idx].is_code: break
\* The value the loop variable is left with (start itself when the range is
\* empty, the last value tried when no code segment is found).
RECURSIVE scan_back(_, _)
scan_back(raws, i) ==
    IF i < 0 THEN i
    ELSE IF is_code(At(raws, i)) THEN i
    ELSE IF i = 0 THEN 0
    ELSE scan_back(raws, i - 1)

\* for post_idx in range(post_idx, len(all_raws)): if ...is_code: break
RECURSIVE scan_forward(_, _)
scan_forward(raws, i) ==
    IF i >= Len(raws) THEN i
    ELSE IF is_code(At(raws, i)) THEN i
    ELSE IF i = Len(raws) - 1 THEN i
    ELSE scan_forward(raws, i + 1)

around_pre_idx(raws, target_raws, sides) ==
    LET pre_idx == index(raws, At(target_raws, 0)) IN
    IF sides \in {"both", "before"} THEN scan_back(raws, pre_idx - 1) ELSE pre_idx

around_post_idx(raws, target_raws, sides) ==
    LET post_idx == index(raws, At(target_raws, Len(target_raws) - 1)) + 1 IN
    IF sides \in {"both", "after"} THEN scan_forward(raws, post_idx) + 1 ELSE post_idx

\* The segments ReflowSequence.from_around_target builds its sequence from.
around_segments(raws, target_raws, sides) ==
    PySlice(raws, around_pre_idx(raws, target_raws, sides),
                  around_post_idx(raws, target_raws, sides))

\* ReflowSequence.from_around_target
from_around_target(raws, target_raws, sides, uid) ==
    IF target_raws = <<>> THEN Raise("AssertionError", <<>>, uid)
    ELSE IF \/ index(raws, At(target_raws, 0)) = NotFound
            \/ index(raws, At(target_raws, Len(target_raws) - 1)) = NotFound
    THEN Raise("ValueError", <<>>, uid)
    ELSE LET segments == around_segments(raws, target_raws, sides)
         IN  from_raw_segments(segments, DepthMap_from_raws(segments), uid)

\* ReflowSequence._find_element_idx_with
find_element_idx_with(elems, target) ==
    IF \E i \in 1..Len(elems) : index(elems[i].segments, target) # NotFound
    THEN (CHOOSE i \in 1..Len(elems) :
            /\ index(elems[i].segments, target) # NotFound
            /\ \A j \in 1..(i - 1) : index(elems[j].segments, target) = NotFound) - 1
    ELSE NotFound

\* The merge with the point after the block left out of it.
without_elements_unmerged(elems, removal_idx) ==
    PyUpto(elems, removal_idx) \o PyFrom(elems, removal_idx + 2)

\* The elements ReflowSequence.without builds its result from.
without_elements(elems, removal_idx) ==
    LET merged_point ==
            ReflowPoint(At(elems, removal_idx - 1).segments
                        \o At(elems, removal_idx + 1).segments)
    IN  PyUpto(elems, removal_idx - 1) \o <<merged_point>>
            \o PyFrom(elems, removal_idx + 2)

\* ReflowSequence.without
without(self, target, uid) ==
    LET elems == self.elements
        removal_idx == find_element_idx_with(elems, target)
    IN  IF removal_idx = NotFound THEN Raise("ValueError", self.depth_map, uid)
        ELSE IF removal_idx = 0 \/ removal_idx = Len(elems) - 1
        THEN Raise("NotImplementedError", self.depth_map, uid)
        ELSE IF isPoint(At(elems, removal_idx))
        THEN Raise("NotImplementedError", self.depth_map, uid)
        ELSE ReflowSequence(without_elements(elems, removal_idx),
                            self.depth_map,
                            <<LintFix_delete(target)>>,
                            uid)

\* The insertion with the two sides taken for each other.
inserted_elements_swapped(elems, target_idx, new_block, pos) ==
    IF pos = "after"
    THEN PyUpto(elems, target_idx) \o <<new_block, ReflowPoint(<<>>)>>
             \o PyFrom(elems, target_idx)
    ELSE PyUpto(elems, target_idx + 1) \o <<ReflowPoint(<<>>), new_block>>
             \o PyFrom(elems, target_idx + 1)

\* The elements ReflowSequence.insert builds its result from.
inserted_elements(elems, target_idx, new_block, pos) ==
    IF pos = "before"
    THEN PyUpto(elems, target_idx) \o <<new_block, ReflowPoint(<<>>)>>
             \o PyFrom(elems, target_idx)
    ELSE PyUpto(elems, target_idx + 1) \o <<ReflowPoint(<<>>), new_block>>
             \o PyFrom(elems, target_idx + 1)

\* ReflowSequence.insert.  The depth map takes the insertion (line 445)
\* before the target's element is looked at (line 451).
insert(self, insertion, target, pos, uid) ==
    LET elems == self.elements
        target_idx == find_element_idx_with(elems, target)
    IN  IF pos \notin {"before", "after"} THEN Raise("AssertionError", self.depth_map, uid)
        ELSE IF target_idx = NotFound THEN Raise("ValueError", self.depth_map, uid)
        ELSE IF is_type(insertion, {"whitespace", "indent", "newline"})
        THEN Raise("ValueError", self.depth_map, uid)
        ELSE IF ~has_depth_info(self.depth_map, target)
        THEN Raise("KeyError", self.depth_map, uid)
        ELSE LET dm == copy_depth_info(self.depth_map, target, insertion, 0)
                 new_block == ReflowBlock(<<insertion>>)
             IN  IF isPoint(At(elems, target_idx))
                 THEN Raise("NotImplementedError", dm, uid)
                 ELSE ReflowSequence(
                          inserted_elements(elems, target_idx, new_block, pos),
                          dm,
                          IF pos = "before"
                          THEN <<LintFix_create_before(target, <<insertion>>)>>
                          ELSE <<LintFix_create_after(target, <<insertion>>)>>,
                          uid)

\* len(target.path_to(target_raws[0])): a raw target is its own leaf, any
\* other target wraps its leaves one level down.
trim_amount(target_raws) == IF Len(target_raws) = 1 THEN 0 ELSE 1

\* for edit_raw in edit_raws: self.depth_map.copy_depth_info(...)
copy_depth_info_all(dm, anchor, edit_raws, trim) ==
    FoldLeft(LAMBDA d, edit_raw : copy_depth_info(d, anchor, edit_raw, trim),
             dm, edit_raws)

\* The replacement with only the target's first leaf taken out.
replaced_raws_first_leaf(current_raws, target_raws, edit_raws) ==
    LET start_idx == index(current_raws, At(target_raws, 0))
    IN  PyUpto(current_raws, start_idx) \o edit_raws
            \o PyFrom(current_raws, start_idx + 1)

\* The raw run ReflowSequence.replace rebuilds the elements from.
replaced_raws(current_raws, target_raws, edit_raws) ==
    LET start_idx == index(current_raws, At(target_raws, 0))
        last_idx == index(current_raws, At(target_raws, Len(target_raws) - 1))
    IN  PyUpto(current_raws, start_idx) \o edit_raws \o PyFrom(current_raws, last_idx + 1)

\* ReflowSequence.replace
replace(self, target_raws, edit_raws, uid) ==
    IF target_raws = <<>> THEN Raise("AssertionError", self.depth_map, uid)
    ELSE IF edit_raws # <<>> /\ ~has_depth_info(self.depth_map, At(target_raws, 0))
    THEN Raise("KeyError", self.depth_map, uid)
    ELSE LET dm == copy_depth_info_all(self.depth_map, At(target_raws, 0), edit_raws,
                                       trim_amount(target_raws))
             current_raws == RawsOf(self.elements)
         IN  IF \/ index(current_raws, At(target_raws, 0)) = NotFound
                \/ index(current_raws, At(target_raws, Len(target_raws) - 1)) = NotFound
             THEN Raise("ValueError", dm, uid)
             ELSE LET new_raws == replaced_raws(current_raws, target_raws, edit_raws) IN
                  IF ~blocks_have_depth(new_raws, dm)
                  THEN Raise("KeyError", dm, uid)
                  ELSE ReflowSequence(elements_from_raw_segments(new_raws), dm,
                                      <<LintFix_replace(target_raws, edit_raws)>>, uid)

\* ------------------------------------------------------------ respace
\* The subsequence of s at the positions (1-based) in I, in order.
SubAt(s, I) ==
    LET f[k \in 0..Len(s)] ==
            IF k = 0 THEN <<>>
            ELSE IF k \in I THEN Append(f[k - 1], s[k]) ELSE f[k - 1]
    IN  f[Len(s)]

DeleteFixes(segs) == [i \in 1..Len(segs) |-> LintFix_delete(segs[i])]

has_newline(segs) == \E i \in 1..Len(segs) : is_type(segs[i], {"newline"})

\* The spacing policy between two blocks, from the type-keyed table: nothing
\* goes before the end of the file, one space goes between any other two.
spacing_between(prev_block, next_block) ==
    IF next_block # <<>> /\ is_type(next_block[1].segments[1], {"end_of_file"})
    THEN "touch" ELSE "single"

\* ReflowPoint.respace_point: prev_block and next_block are <<>> (None) or a
\* one-element tuple holding the block.  Returns the extended fix list, the
\* new point and the uid counter.
respace_point(point, prev_block, next_block, fixes, strip_newlines, uid) ==
    LET segs == point.segments
        N == 1..Len(segs)
        stripped == {i \in N : strip_newlines /\ is_type(segs[i], {"newline"})}
        left == N \ stripped
        nl == {i \in left : is_type(segs[i], {"newline"})}
        ws == {i \in left : is_type(segs[i], {"whitespace"})}
        last_nl == CHOOSE i \in nl : \A j \in nl : j <= i
        last_ws == CHOOSE i \in ws : \A j \in ws : j <= i
        strip_fixes == DeleteFixes(SubAt(segs, stripped))
    IN  IF nl # {}
        THEN \* A line break: whitespace before the last newline is trailing.
             LET trailing == {i \in ws : i < last_nl} IN
             [fixes |-> fixes \o strip_fixes \o DeleteFixes(SubAt(segs, trailing)),
              point |-> ReflowPoint(SubAt(segs, left \ trailing)),
              uid |-> uid]
        ELSE IF spacing_between(prev_block, next_block) = "touch"
        THEN [fixes |-> fixes \o strip_fixes \o DeleteFixes(SubAt(segs, ws)),
              point |-> ReflowPoint(SubAt(segs, left \ ws)),
              uid |-> uid]
        ELSE IF ws = {}
        THEN \* A space is missing: create one next to a neighbouring block.
             LET added == Seg(uid, "whitespace", 1) IN
             IF prev_block # <<>>
             THEN [fixes |-> fixes \o strip_fixes
                       \o <<LintFix_create_after(prev_block[1].segments[1], <<added>>)>>,
                   point |-> ReflowPoint(<<added>> \o SubAt(segs, left)),
                   uid |-> uid + 1]
             ELSE IF next_block # <<>>
             THEN [fixes |-> fixes \o strip_fixes
                       \o <<LintFix_create_before(next_block[1].segments[1], <<added>>)>>,
                   point |-> ReflowPoint(SubAt(segs, left) \o <<added>>),
                   uid |-> uid + 1]
             ELSE [fixes |-> fixes \o strip_fixes,
                   point |-> ReflowPoint(SubAt(segs, left)), uid |-> uid]
        ELSE \* Keep the last whitespace, as one space.
             LET extra == ws \ {last_ws}
                 kept == segs[last_ws]
                 single == Seg(kept.uid, "whitespace", 1)
                 resize == IF kept.val = 1 THEN <<>>
                           ELSE <<LintFix_replace(<<kept>>, <<single>>)>>
             IN  [fixes |-> fixes \o strip_fixes
                       \o DeleteFixes(SubAt(segs, extra)) \o resize,
                  point |-> ReflowPoint(
                      [i \in 1..Len(SubAt(segs, left \ extra)) |->
                          IF SubAt(segs, left \ extra)[i] = kept THEN single
                          ELSE SubAt(segs, left \ extra)[i]]),
                  uid |-> uid]

\* The filter test with the two filters taken for each other.
filter_resets_swapped(filter, new_point, post) ==
    IF \/ has_newline(new_point.segments)
       \/ (post # <<>> /\ "end_of_file" \in class_types_of(post[1].segments[1]))
    THEN filter = "newline"
    ELSE filter = "inline"

\* The filter test of ReflowSequence.respace, made on the point as respaced:
\* TRUE when the respaced point is dropped and the original kept.
filter_resets(filter, new_point, post) ==
    IF \/ has_newline(new_point.segments)
       \/ (post # <<>> /\ "end_of_file" \in class_types_of(post[1].segments[1]))
    THEN filter = "inline"
    ELSE filter = "newline"

\* One pass of the loop of ReflowSequence.respace, at element idx, on
\* st = [elements (new_elements), fixes, uid].
respace_step(elems, strip_newlines, filter, st, idx) ==
    IF ~isPoint(At(elems, idx)) THEN st
    ELSE LET point == At(elems, idx)
             pre == IF idx > 0 THEN <<At(elems, idx - 1)>> ELSE <<>>
             post == IF idx < Len(elems) - 1 THEN <<At(elems, idx + 1)>> ELSE <<>>
             new_elements == st.elements
             with_pre ==
                 IF pre # <<>> /\ (new_elements = <<>>
                                   \/ new_elements[Len(new_elements)] # pre[1])
                 THEN Append(new_elements, pre[1]) ELSE new_elements
         IN  Bind(respace_point(point, pre, post, st.fixes, strip_newlines, st.uid),
                  LAMBDA r :
                      LET reset == filter_resets(filter, r.point, post)
                          new_point == IF reset THEN point ELSE r.point
                      IN  [elements |-> Append(with_pre, new_point) \o post,
                           fixes |-> IF reset THEN st.fixes ELSE r.fixes,
                           uid |-> IF reset THEN st.uid ELSE r.uid])

respace_loop(elems, fixes, uid, strip_newlines, filter) ==
    FoldLeft(LAMBDA st, idx : respace_step(elems, strip_newlines, filter, st, idx),
             [elements |-> <<>>, fixes |-> fixes, uid |-> uid],
             Range(0, Len(elems)))

\* ReflowSequence.respace
respace(self, strip_newlines, filter, uid) ==
    IF filter \notin {"all", "newline", "inline"}
    THEN Raise("AssertionError", self.depth_map, uid)
    ELSE Bind(respace_loop(self.elements, self.embodied_fixes, uid,
                           strip_newlines, filter),
              LAMBDA r : ReflowSequence(r.elements, self.depth_map, r.fixes, r.uid))

\* ------------------------------------------------------------ points
\* Configuration: the indent unit and the width of one indent in spaces.
indent_unit == "space"
tab_space_size == 2

\* n * str (the empty string when n is not positive)
Repeat(str, n) ==
    IF n <= 0 THEN <<>>
    ELSE [i \in 1..(n * Len(str)) |-> str[((i - 1) % Len(str)) + 1]]

\* The raw text of a segment, as a sequence of characters.  Meta segments
\* (indents, placeholders, the end of the file) have no text.
raw_of(seg) ==
    CASE seg.type = "whitespace" -> Repeat(<<" ">>, seg.val)
      [] seg.type = "newline" -> <<"\n">>
      [] seg.type = "code" -> <<"x">>
      [] seg.type = "comment" -> <<"#">>
      [] OTHER -> <<>>

\* ReflowElement.raw
element_raw(elem) == Flatten([i \in 1..Len(elem.segments) |-> raw_of(elem.segments[i])])

indent_val(seg) == IF is_type(seg, {"indent"}) THEN seg.val ELSE 0

\* ReflowPoint.get_indent_impulse: the net sum of the markers' values and the
\* lowest running sum on the way (0 at the start).
running_sum(segs, k) ==
    LET f[j \in 0..Len(segs)] == IF j = 0 THEN 0 ELSE f[j - 1] + indent_val(segs[j])
    IN  f[k]
get_indent_impulse(point) ==
    LET segs == point.segments
        sums == {running_sum(segs, k) : k \in 0..Len(segs)}
    IN  [impulse |-> running_sum(segs, Len(segs)),
         trough |-> CHOOSE m \in sums : \A x \in sums : m <= x]

\* ReflowPoint.get_indent: None without a newline, else the text of the
\* whitespace that follows the last newline ("" when there is none).
None == <<"None">>
last_newline_pos(segs) ==
    CHOOSE i \in 1..Len(segs) :
        /\ is_type(segs[i], {"newline"})
        /\ \A j \in (i + 1)..Len(segs) : ~is_type(segs[j], {"newline"})
indent_pos(segs) ==
    \* the position of the indent whitespace, 0 when there is none
    LET after == {i \in (last_newline_pos(segs) + 1)..Len(segs) :
                      is_type(segs[i], {"whitespace"})}
    IN  IF after = {} THEN 0 ELSE CHOOSE i \in after : \A j \in after : i <= j
get_indent(point) ==
    IF ~has_newline(point.segments) THEN None
    ELSE IF indent_pos(point.segments) = 0 THEN <<>>
    ELSE raw_of(point.segments[indent_pos(point.segments)])

\* ReflowPoint.indent_to: the point with its indent set to desired_indent (a
\* run of spaces), a line break added when it has none; and the fixes that do
\* it, anchored on the existing whitespace or before the segment `before`.
indent_to(point, desired_indent, before, uid) ==
    LET segs == point.segments
        want == Len(desired_indent)
    IN  IF has_newline(segs)
        THEN LET ip == indent_pos(segs) IN
             IF ip # 0
             THEN IF raw_of(segs[ip]) = desired_indent
                  THEN [fixes |-> <<>>, point |-> point, uid |-> uid]
                  ELSE IF want = 0
                  THEN [fixes |-> <<LintFix_delete(segs[ip])>>,
                        point |-> ReflowPoint(SubAt(segs, (1..Len(segs)) \ {ip})),
                        uid |-> uid]
                  ELSE LET new_ws == Seg(segs[ip].uid, "whitespace", want) IN
                       [fixes |-> <<LintFix_replace(<<segs[ip]>>, <<new_ws>>)>>,
                        point |-> ReflowPoint([segs EXCEPT ![ip] = new_ws]),
                        uid |-> uid]
             ELSE IF want = 0
                  THEN [fixes |-> <<>>, point |-> point, uid |-> uid]
                  ELSE LET new_ws == Seg(uid, "whitespace", want) IN
                       [fixes |-> <<LintFix_create_before(before, <<new_ws>>)>>,
                        point |-> ReflowPoint(Append(segs, new_ws)),
                        uid |-> uid + 1]
        ELSE LET new_nl == Seg(uid, "newline", 0)
                 new_ws == Seg(uid + 1, "whitespace", want)
                 added == IF want = 0 THEN <<new_nl>> ELSE <<new_nl, new_ws>>
                 ws == {i \in 1..Len(segs) : is_type(segs[i], {"whitespace"})}
                 last_ws == CHOOSE i \in ws : \A j \in ws : j <= i
             IN  IF ws # {}
                 THEN [fixes |-> <<LintFix_replace(<<segs[last_ws]>>, added)>>,
                       point |-> ReflowPoint(SubSeq(segs, 1, last_ws - 1) \o added
                                             \o SubSeq(segs, last_ws + 1, Len(segs))),
                       uid |-> uid + 2]
                 ELSE [fixes |-> <<LintFix_create_before(before, added)>>,
                       point |-> ReflowPoint(segs \o added),
                       uid |-> uid + 2]

\* ------------------------------------------------------------ the crawl
\* Optional[int]: NoIdx is None.  Python treats None and 0 alike as false.
NoIdx == -1
truthy_idx(i) == i # NoIdx /\ i # 0

IndentPoint(idx, impulse, trough, balance, last_line_break_idx, is_line_break, untaken) ==
    [idx |-> idx, indent_impulse |-> impulse, indent_trough |-> trough,
     initial_indent_balance |-> balance, last_line_break_idx |-> last_line_break_idx,
     is_line_break |-> is_line_break, untaken_indents |-> untaken]

closing_indent_balance(ip) == ip.initial_indent_balance + ip.indent_impulse

\* No opened indent registered as untaken.
new_untaken_none(indent_balance, indent_impulse) == <<>>

\* for i in range(0, indent_impulse): untaken_indents += (indent_balance + i + 1,)
new_untaken(indent_balance, indent_impulse) ==
    IF indent_impulse <= 0 THEN <<>>
    ELSE [i \in 1..indent_impulse |-> indent_balance + i]

\* The pruning left out: every untaken indent is kept.
strip_untaken_none(untaken, indent_balance) == untaken

\* untaken_indents = tuple(x for x in untaken_indents if x <= indent_balance)
strip_untaken(untaken, indent_balance) ==
    SelectSeq(untaken, LAMBDA x : x <= indent_balance)

\* The step with the balance left as it was after a line break.
crawl_step_break_keeps_balance(elems, idx, st) ==
    LET elem == At(elems, idx) IN
    IF ~isPoint(elem) THEN st
    ELSE LET it == get_indent_impulse(elem)
             ip(brk) == IndentPoint(idx, it.impulse, it.trough, st.indent_balance,
                                    st.last_line_break_idx, brk, st.untaken_indents)
             balance == st.indent_balance + it.impulse
         IN  IF has_newline(elem.segments) /\ idx # st.last_line_break_idx
             THEN [st EXCEPT !.points = Append(@, ip(TRUE)),
                             !.last_line_break_idx = idx,
                             !.untaken_indents = strip_untaken(@, balance)]
             ELSE IF it.impulse # 0 \/ it.trough # 0 \/ idx = 0
             THEN [st EXCEPT !.points = Append(@, ip(FALSE)),
                             !.indent_balance = balance,
                             !.untaken_indents =
                                 strip_untaken(@ \o new_untaken(st.indent_balance,
                                                                it.impulse), balance)]
             ELSE IF idx + 1 >= Len(elems)
             THEN [st EXCEPT !.ok = FALSE]      \* elements[idx + 1]: IndexError
             ELSE IF is_type(At(elems, idx + 1).segments[1], {"end_of_file"})
             THEN [st EXCEPT !.points = Append(@, ip(TRUE)),
                             !.indent_balance = balance,
                             !.untaken_indents = strip_untaken(@, balance)]
             ELSE [st EXCEPT !.indent_balance = balance,
                             !.untaken_indents = strip_untaken(@, balance)]

\* One step of _crawl_indent_points at element idx, from the crawl state st =
\* [ok, points, last_line_break_idx, indent_balance, untaken_indents].
crawl_step(elems, idx, st) ==
    LET elem == At(elems, idx) IN
    IF ~isPoint(elem) THEN st
    ELSE LET it == get_indent_impulse(elem)
             ip(brk) == IndentPoint(idx, it.impulse, it.trough, st.indent_balance,
                                    st.last_line_break_idx, brk, st.untaken_indents)
             balance == st.indent_balance + it.impulse
         IN  IF has_newline(elem.segments) /\ idx # st.last_line_break_idx
             THEN [st EXCEPT !.points = Append(@, ip(TRUE)),
                             !.last_line_break_idx = idx,
                             !.indent_balance = balance,
                             !.untaken_indents = strip_untaken(@, balance)]
             ELSE IF it.impulse # 0 \/ it.trough # 0 \/ idx = 0
             THEN [st EXCEPT !.points = Append(@, ip(FALSE)),
                             !.indent_balance = balance,
                             !.untaken_indents =
                                 strip_untaken(@ \o new_untaken(st.indent_balance,
                                                                it.impulse), balance)]
             ELSE IF idx + 1 >= Len(elems)
             THEN [st EXCEPT !.ok = FALSE]      \* elements[idx + 1]: IndexError
             ELSE IF is_type(At(elems, idx + 1).segments[1], {"end_of_file"})
             THEN [st EXCEPT !.points = Append(@, ip(TRUE)),
                             !.indent_balance = balance,
                             !.untaken_indents = strip_untaken(@, balance)]
             ELSE [st EXCEPT !.indent_balance = balance,
                             !.untaken_indents = strip_untaken(@, balance)]

CrawlInit ==
    [ok |-> TRUE, points |-> <<>>, last_line_break_idx |-> NoIdx,
     indent_balance |-> 0, untaken_indents |-> <<>>]

\* The crawl state after the elements before idx.
crawl_upto(elems, idx) ==
    FoldLeft(LAMBDA st, i : IF st.ok THEN crawl_step(elems, i, st) ELSE st,
             CrawlInit, Range(0, idx))

\* _crawl_indent_points
crawl_indent_points(elems) == crawl_upto(elems, Len(elems))

\* ------------------------------------------------------------ lines
IndentLine(balance, points) ==
    [initial_indent_balance |-> balance, indent_points |-> points]

\* _IndentLine.from_points
from_points(indent_points) ==
    IF truthy_idx(indent_points[Len(indent_points)].last_line_break_idx)
    THEN IndentLine(closing_indent_balance(indent_points[1]), indent_points)
    ELSE IndentLine(0, indent_points)

\* One pass of the loop of _map_line_buffers, on b = [lines, point_buffer].
line_buffers_step(b, indent_point) ==
    LET buff == Append(b.point_buffer, indent_point) IN
    IF ~indent_point.is_line_break
    THEN [b EXCEPT !.point_buffer = buff]
    ELSE [lines |-> Append(b.lines, from_points(buff)),
          point_buffer |-> <<indent_point>>]

\* _map_line_buffers, on the points the crawl yields.
map_line_buffers(points) ==
    Bind(FoldLeft(line_buffers_step, [lines |-> <<>>, point_buffer |-> <<>>], points),
         LAMBDA b : IF Len(b.point_buffer) > 1
                    THEN Append(b.lines, from_points(b.point_buffer))
                    ELSE b.lines)

\* _IndentLine._iter_block_segments
iter_block_segments(line, elems) ==
    LET pts == line.indent_points
        last == pts[Len(pts)]
        range_slice == IF last.last_line_break_idx = NoIdx
                       THEN PySlice(elems, 0, last.idx)
                       ELSE PySlice(elems, pts[1].idx, last.idx)
    IN  RawsOf(SelectSeq(range_slice, isBlock))

\* _IndentLine.is_all_comments
is_all_comments(line, elems) ==
    LET block_segments == iter_block_segments(line, elems) IN
    /\ block_segments # <<>>
    /\ \A i \in 1..Len(block_segments) : is_type(block_segments[i], {"comment"})

\* _IndentLine.is_all_templates
is_all_templates(line, elems) ==
    LET block_segments == iter_block_segments(line, elems) IN
    /\ block_segments # <<>>
    /\ \A i \in 1..Len(block_segments) :
           is_type(block_segments[i], {"placeholder", "template_loop"})

\* _IndentLine.desired_indent_units
desired_indent_units(line, forced_indents) ==
    LET first == line.indent_points[1]
        relevant_untaken_indents ==
            IF first.indent_trough # 0
            THEN SelectSeq(first.untaken_indents,
                     LAMBDA i : i <= line.initial_indent_balance
                                     - (first.indent_impulse - first.indent_trough))
            ELSE first.untaken_indents
    IN  line.initial_indent_balance - Len(relevant_untaken_indents) + Len(forced_indents)

\* ------------------------------------------------------------ templated lines
block_uuid(seg) == seg.val
has_block_uuid(seg) == seg.val >= 1

\* The segment a templated line is keyed on: elements[last.idx - 1].segments[0].
template_segment(line, elems) ==
    At(elems, line.indent_points[Len(line.indent_points)].idx - 1).segments[1]

\* The assertions _revise_templated_lines makes of a templated line.
template_line_ok(line, elems) ==
    LET pts == line.indent_points IN
    /\ Len(pts) \in {1, 2}
    /\ pts[Len(pts)].idx - pts[1].idx \in {0, 2}
    /\ is_type(template_segment(line, elems), {"placeholder", "template_loop"})
    /\ has_block_uuid(template_segment(line, elems))

\* The (0-based) indices of the templated lines, in order.
templated_idxs(lines, elems) ==
    {i \in 0..(Len(lines) - 1) : is_all_templates(At(lines, i), elems)}

SetToSeq(S) ==
    LET f[k \in 0..Cardinality(S)] ==
            IF k = 0 THEN <<>>
            ELSE Append(f[k - 1],
                        CHOOSE x \in S : Cardinality({y \in S : y < x}) = k - 1)
    IN  f[Cardinality(S)]

SetMin(S) == CHOOSE m \in S : \A x \in S : m <= x

\* grouped[uuid]: the indices of the templated lines with that block_uuid.
group_lines_of(lines, elems, uuid) ==
    SetToSeq({i \in templated_idxs(lines, elems) :
                  block_uuid(template_segment(At(lines, i), elems)) = uuid})

\* grouped.keys(): the block_uuids in the order their first line comes.
group_uuids(lines, elems) ==
    LET idxs == SetToSeq(templated_idxs(lines, elems))
        f[k \in 0..Len(idxs)] ==
            IF k = 0 THEN <<>>
            ELSE LET u == block_uuid(template_segment(At(lines, idxs[k]), elems)) IN
                 IF \E j \in 1..Len(f[k - 1]) : f[k - 1][j] = u
                 THEN f[k - 1] ELSE Append(f[k - 1], u)
    IN  f[Len(idxs)]

\* The balances a templated line can reach across the indents of its first
\* point, walking it backward and forward from the line's balance.
template_steps(line, elems) ==
    LET segs == At(elems, line.indent_points[1].idx).segments
        n == Len(segs)
        b == line.initial_indent_balance
        fwd(j) == running_sum(segs, j)
        bwd(j) == running_sum(segs, n) - running_sum(segs, n - j)
    IN  {b - bwd(j) : j \in 1..n} \cup {b + fwd(j) : j \in 1..n}

SetAt(s, i, v) == [s EXCEPT ![i + 1] = v]

\* The limit on the candidates is not applied.
revise_group_no_limit(lines, elems, group_lines) ==
    LET balances == {At(lines, group_lines[k]).initial_indent_balance :
                        k \in 1..Len(group_lines)}
        first_line_idx == group_lines[1]
        last_line_idx == group_lines[Len(group_lines)]
        between == (first_line_idx + 1)..(last_line_idx - 1)
        members == {group_lines[k] : k \in 1..Len(group_lines)}
        overlap == {x \in template_steps(At(lines, group_lines[1]), elems) :
                       \A k \in 1..Len(group_lines) :
                           x \in template_steps(At(lines, group_lines[k]), elems)}
        best_indent == IF overlap # {} THEN SetMin(overlap) ELSE SetMin(balances)
    IN  IF Cardinality(balances) = 1 THEN [ok |-> TRUE, lines |-> lines]
        ELSE IF between = {} THEN [ok |-> FALSE, lines |-> lines]
        ELSE [ok |-> TRUE,
              lines |-> [i \in 1..Len(lines) |->
                  IF (i - 1) \in members
                  THEN [lines[i] EXCEPT !.initial_indent_balance = best_indent]
                  ELSE IF overlap = {} /\ (i - 1) \in between
                  THEN [lines[i] EXCEPT !.initial_indent_balance = @ - 1]
                  ELSE lines[i]]]

\* One pass of the `for group_uuid in grouped.keys()` loop.
revise_group(lines, elems, group_lines) ==
    LET balances == {At(lines, group_lines[k]).initial_indent_balance :
                        k \in 1..Len(group_lines)}
        first_line_idx == group_lines[1]
        last_line_idx == group_lines[Len(group_lines)]
        between == (first_line_idx + 1)..(last_line_idx - 1)
        members == {group_lines[k] : k \in 1..Len(group_lines)}
        limit_indent == SetMin({At(lines, i).initial_indent_balance : i \in between})
        common == {x \in template_steps(At(lines, group_lines[1]), elems) :
                      \A k \in 1..Len(group_lines) :
                          x \in template_steps(At(lines, group_lines[k]), elems)}
        overlap == {i \in common : i <= limit_indent - 1}
        best_indent == IF overlap # {} THEN SetMin(overlap) ELSE SetMin(balances)
    IN  IF Cardinality(balances) = 1 THEN [ok |-> TRUE, lines |-> lines]
        ELSE IF between = {} THEN [ok |-> FALSE, lines |-> lines]  \* min(): ValueError
        ELSE [ok |-> TRUE,
              lines |-> [i \in 1..Len(lines) |->
                  IF (i - 1) \in members
                  THEN [lines[i] EXCEPT !.initial_indent_balance = best_indent]
                  ELSE IF overlap = {} /\ (i - 1) \in between
                  THEN [lines[i] EXCEPT !.initial_indent_balance = @ - 1]
                  ELSE lines[i]]]

\* Only the first group is reconciled.
revise_groups_first_only(lines, elems, groups) ==
    IF groups = <<>> THEN [ok |-> TRUE, lines |-> lines]
    ELSE revise_group(lines, elems, groups[1])

revise_groups(lines, elems, groups) ==
    FoldLeft(LAMBDA r, group_lines :
                 IF r.ok THEN revise_group(r.lines, elems, group_lines) ELSE r,
             [ok |-> TRUE, lines |-> lines], groups)

\* _revise_templated_lines
revise_templated_lines(lines, elems) ==
    IF \E i \in templated_idxs(lines, elems) : ~template_line_ok(At(lines, i), elems)
    THEN [ok |-> FALSE, lines |-> lines]
    ELSE LET uuids == group_uuids(lines, elems)
             groups == [k \in 1..Len(uuids) |-> group_lines_of(lines, elems, uuids[k])]
         IN  revise_groups(lines, elems, groups)

\* ------------------------------------------------------------ comment lines
\* lines with the balance of every line of the buffer set to balance.
anchor_comment_lines(lines, comment_line_buffer, balance) ==
    [i \in 1..Len(lines) |->
        IF (i - 1) \in comment_line_buffer
        THEN [lines[i] EXCEPT !.initial_indent_balance = balance] ELSE lines[i]]

\* The pass with the buffered comment lines anchored to the baseline at
\* every line that is not comment-only.
comment_step_to_baseline(elems, b, idx) ==
    IF is_all_comments(At(b.lines, idx), elems)
    THEN [b EXCEPT !.comment_line_buffer = @ \cup {idx}]
    ELSE [lines |-> anchor_comment_lines(b.lines, b.comment_line_buffer, 0),
          comment_line_buffer |-> {}]

\* One pass of the loop of _revise_comment_lines, at line idx, on
\* b = [lines, comment_line_buffer].
comment_step(elems, b, idx) ==
    IF is_all_comments(At(b.lines, idx), elems)
    THEN [b EXCEPT !.comment_line_buffer = @ \cup {idx}]
    ELSE [lines |-> anchor_comment_lines(b.lines, b.comment_line_buffer,
                        At(b.lines, idx).initial_indent_balance),
          comment_line_buffer |-> {}]

\* _revise_comment_lines
revise_comment_lines(lines, elems) ==
    Bind(FoldLeft(LAMBDA b, idx : comment_step(elems, b, idx),
                  [lines |-> lines, comment_line_buffer |-> {}],
                  Range(0, Len(lines))),
         LAMBDA b : anchor_comment_lines(b.lines, b.comment_line_buffer, 0))

\* ------------------------------------------------------------ evaluation
\* construct_single_indent ("" stands for the SQLFluffUserError).
construct_single_indent(unit, size) ==
    IF unit = "tab" THEN <<"\t">>
    ELSE IF unit = "space" THEN Repeat(<<" ">>, size)
    ELSE <<>>

\* The state of one evaluation: the element buffer it edits in place, the
\* fixes so far, the forced indents and the uid counter.
EvalState(ok, elems, fixes, forced_indents, uid) ==
    [ok |-> ok, elements |-> elems, fixes |-> fixes,
     forced_indents |-> forced_indents, uid |-> uid]

\* fixes, point = elements[idx].indent_to(desired, before=elements[idx + 1]...)
\* elements[idx] = point
indent_point_at(st, idx, desired_indent) ==
    IF idx + 1 >= Len(st.elements) THEN [st EXCEPT !.ok = FALSE]
    ELSE Bind(indent_to(At(st.elements, idx), desired_indent,
                        At(st.elements, idx + 1).segments[1], st.uid),
              LAMBDA r : [st EXCEPT !.elements = SetAt(@, idx, r.point),
                                    !.fixes = @ \o r.fixes,
                                    !.uid = r.uid])

\* The starting indent with the initial point emptied and no fix made for it.
eval_starting_indent_unfixed(st, line, single_indent) ==
    LET pts == line.indent_points
        first == pts[1]
        last == pts[Len(pts)]
        elems == st.elements
        current_indent ==
            IF truthy_idx(last.last_line_break_idx)
            THEN get_indent(At(elems, last.last_line_break_idx))
            ELSE IF isPoint(At(elems, 0)) THEN element_raw(At(elems, 0))
            ELSE <<>>
        desired_starting_indent ==
            Repeat(single_indent, desired_indent_units(line, st.forced_indents))
    IN  IF current_indent = desired_starting_indent THEN st
        ELSE IF first.idx = 0 /\ ~first.is_line_break
        THEN [st EXCEPT !.elements = SetAt(@, 0, ReflowPoint(<<>>))]
        ELSE indent_point_at(st, first.idx, desired_starting_indent)

\* "First handle starting indent."
eval_starting_indent(st, line, single_indent) ==
    LET pts == line.indent_points
        first == pts[1]
        last == pts[Len(pts)]
        elems == st.elements
        current_indent ==
            IF truthy_idx(last.last_line_break_idx)
            THEN get_indent(At(elems, last.last_line_break_idx))
            ELSE IF isPoint(At(elems, 0)) THEN element_raw(At(elems, 0))
            ELSE <<>>
        desired_starting_indent ==
            Repeat(single_indent, desired_indent_units(line, st.forced_indents))
    IN  IF current_indent = desired_starting_indent THEN st
        ELSE IF first.idx = 0 /\ ~first.is_line_break
        THEN [st EXCEPT !.elements = SetAt(@, 0, ReflowPoint(<<>>)),
                        !.fixes = @ \o DeleteFixes(At(elems, 0).segments)]
        ELSE indent_point_at(st, first.idx, desired_starting_indent)

\* "Then check for new lines. Either on the way up..."
eval_way_up(st, line, single_indent) ==
    LET pts == line.indent_points
        last == pts[Len(pts)]
        closing_balance == closing_indent_balance(last)
        closing_trough ==
            IF last.indent_trough # 0
            THEN last.initial_indent_balance + last.indent_trough
            ELSE last.initial_indent_balance + last.indent_impulse
        hits == {k \in 1..Len(pts) : closing_indent_balance(pts[k]) = closing_trough}
        ip == pts[SetMin(hits)]
    IN  IF \A k \in 1..Len(last.untaken_indents) :
               last.untaken_indents[k] # closing_trough
        THEN st
        ELSE IF hits = {} THEN [st EXCEPT !.ok = FALSE]  \* target_point_idx unbound
        ELSE Bind(indent_point_at(st, ip.idx,
                      Repeat(single_indent,
                             closing_indent_balance(ip) - Len(ip.untaken_indents))),
                  LAMBDA r : [r EXCEPT !.forced_indents = Append(@, closing_balance)])

\* A balance among the forced indents forces no break.
way_down_forces_unforced(ip, forced_indents) ==
    /\ ~ip.is_line_break
    /\ ip.indent_impulse < 0
    /\ \A k \in 1..Len(ip.untaken_indents) :
           ip.untaken_indents[k] # ip.initial_indent_balance
    /\ \A k \in 1..Len(forced_indents) :
           forced_indents[k] # ip.initial_indent_balance

\* "Or the way down": the points of the line but the last, in order.
way_down_forces(ip, forced_indents) ==
    /\ ~ip.is_line_break
    /\ ip.indent_impulse < 0
    /\ ~(/\ \E k \in 1..Len(ip.untaken_indents) :
                ip.untaken_indents[k] = ip.initial_indent_balance
         /\ \A k \in 1..Len(forced_indents) :
                forced_indents[k] # ip.initial_indent_balance)

eval_way_down_step(st, ip, single_indent) ==
    IF ~st.ok \/ ~way_down_forces(ip, st.forced_indents) THEN st
    ELSE indent_point_at(st, ip.idx,
             Repeat(single_indent,
                    closing_indent_balance(ip) - Len(ip.untaken_indents)
                        + Len(st.forced_indents)))

\* for ip in indent_points[:-1]: ...
eval_way_down(st, line, single_indent) ==
    FoldLeft(LAMBDA s, ip : eval_way_down_step(s, ip, single_indent),
             st, PyUpto(line.indent_points, -1))

\* The evaluation of a line with every forced indent kept.
evaluate_indent_point_buffer_unpruned(st, line, single_indent) ==
    LET pts == line.indent_points
        starting_balance == line.initial_indent_balance
        closing_balance == closing_indent_balance(pts[Len(pts)])
    IN  IF pts[1].idx + 1 >= Len(st.elements)
        THEN [st EXCEPT !.ok = FALSE]
        ELSE Bind(eval_starting_indent(st, line, single_indent), LAMBDA s1 :
             IF ~s1.ok THEN s1
             ELSE IF closing_balance > starting_balance
             THEN eval_way_up(s1, line, single_indent)
             ELSE IF closing_balance < starting_balance
             THEN eval_way_down(s1, line, single_indent)
             ELSE s1)

\* _evaluate_indent_point_buffer: st.elements is the buffer it mutates.
evaluate_indent_point_buffer(st, line, single_indent) ==
    LET pts == line.indent_points
        starting_balance == line.initial_indent_balance
        closing_balance == closing_indent_balance(pts[Len(pts)])
    IN  IF pts[1].idx + 1 >= Len(st.elements)
        THEN [st EXCEPT !.ok = FALSE]     \* elements[idx + 1] in the log call
        ELSE Bind(eval_starting_indent(st, line, single_indent), LAMBDA s1 :
             Bind(IF ~s1.ok THEN s1
                  ELSE IF closing_balance > starting_balance
                  THEN eval_way_up(s1, line, single_indent)
                  ELSE IF closing_balance < starting_balance
                  THEN eval_way_down(s1, line, single_indent)
                  ELSE s1,
                  LAMBDA s2 : [s2 EXCEPT !.forced_indents =
                                   SelectSeq(@, LAMBDA i : i <= closing_balance)]))

\* for line in lines: fixes += _evaluate_indent_point_buffer(...)
evaluate_lines(st, lines, single_indent) ==
    FoldLeft(LAMBDA s, line :
                 IF s.ok THEN evaluate_indent_point_buffer(s, line, single_indent)
                 ELSE s,
             st, lines)

\* The lines of the elements after grouping and both revisions.
revised_lines(elems) ==
    Bind(crawl_indent_points(elems), LAMBDA crawl :
    IF ~crawl.ok THEN [ok |-> FALSE, lines |-> <<>>]
    ELSE Bind(map_line_buffers(crawl.points), LAMBDA lines :
         Bind(revise_templated_lines(lines, elems), LAMBDA templated :
         IF ~templated.ok THEN templated
         ELSE [ok |-> TRUE, lines |-> revise_comment_lines(templated.lines, elems)])))

\* elem_buffer = elements: the evaluation edits the caller's own list.
elements_alias(mem) == [ref |-> "elements", mem |-> mem]

\* elem_buffer = elements.copy(): the list the evaluation edits.  The lists
\* live in mem; "buffer" names the new list, "elements" the caller's.
elements_copy(mem) ==
    [ref |-> "buffer", mem |-> [mem EXCEPT !.buffer = mem.elements]]

\* lint_indent_points.  Returns the caller's list as the call leaves it
\* (elements), the list it returns (elem_buffer) and the fixes.
lint_indent_points(elems, single_indent, uid) ==
    Bind(revised_lines(elems), LAMBDA revised :
    IF ~revised.ok
    THEN [ok |-> FALSE, elements |-> elems, elem_buffer |-> <<>>,
          fixes |-> <<>>, uid |-> uid]
    ELSE Bind(elements_copy([elements |-> elems, buffer |-> <<>>]), LAMBDA copy :
         Bind(evaluate_lines(EvalState(TRUE, copy.mem[copy.ref], <<>>, <<>>, uid),
                             revised.lines, single_indent), LAMBDA st :
         LET mem == [copy.mem EXCEPT ![copy.ref] = st.elements] IN
         [ok |-> st.ok, elements |-> mem.elements, elem_buffer |-> mem[copy.ref],
          fixes |-> st.fixes, uid |-> st.uid])))

\* lint_line_length: breaks a line longer than the configured maximum at a
\* permitted point.  No line of a tree of MaxRaws segments comes near the
\* maximum, so the pass returns what it is given, with no fix.
max_line_length == 80
lint_line_length(elems, single_indent, line_length_limit) ==
    [elements |-> elems, fixes |-> <<>>]

\* rebreak_sequence: moves line breaks around operators and commas.  The
\* segment types modelled hold neither, so nothing moves.
rebreak_sequence(elems) == [elements |-> elems, fixes |-> <<>>]

\* A guard that lets every sequence through.
never_embodied_fixes(self) == FALSE

\* if self.embodied_fixes: raise NotImplementedError(...)
has_embodied_fixes(self) == self.embodied_fixes # <<>>

\* ReflowSequence.rebreak
rebreak(self, uid) ==
    IF has_embodied_fixes(self)
    THEN Raise("NotImplementedError", self.depth_map, uid)
    ELSE LET r == rebreak_sequence(self.elements) IN
         ReflowSequence(r.elements, self.depth_map, r.fixes, uid)

\* ReflowSequence.reindent.  res is the outcome; self_elements is the
\* receiver's own element list as the call leaves it.  The call hands
\* lint_indent_points a skip_indentation_in list, which the
\* lint_indent_points of reindent.py has no parameter for: it plays no part.
reindent(self, uid) ==
    IF has_embodied_fixes(self)
    THEN [res |-> Raise("NotImplementedError", self.depth_map, uid),
          self_elements |-> self.elements]
    ELSE LET single_indent == construct_single_indent(indent_unit, tab_space_size) IN
         IF single_indent = <<>>
         THEN [res |-> Raise("SQLFluffUserError", self.depth_map, uid),
               self_elements |-> self.elements]
         ELSE Bind(lint_indent_points(self.elements, single_indent, uid), LAMBDA r :
              IF ~r.ok
              THEN [res |-> Raise("IndexError", self.depth_map, r.uid),
                    self_elements |-> r.elements]
              ELSE LET l == lint_line_length(r.elem_buffer, single_indent,
                                             max_line_length)
                   IN  [res |-> ReflowSequence(l.elements, self.depth_map,
                                               r.fixes \o l.fixes, r.uid),
                        self_elements |-> r.elements])

\* ------------------------------------------------------------ state
VARIABLES
    all_raws,        \* root_segment.raw_segments
    elements,        \* self.elements of the sequence held
    embodied_fixes,  \* self.embodied_fixes
    depth_map,       \* self.depth_map (shared by every sequence of a chain)
    uid,             \* the next unused segment uid
    nedits,          \* the calls that built or edited a sequence so far
    last             \* the last call: its arguments, receiver and outcome

vars == <<all_raws, elements, embodied_fixes, depth_map, uid, nedits, last>>

\* Most calls of without / insert / replace / respace / the constructor in
\* one chain.
MaxEdits == 1

self == [elements |-> elements, embodied_fixes |-> embodied_fixes,
         depth_map |-> depth_map]

\* The segment types of the trees a chain starts from.
TreeTypes == {"code", "whitespace", "newline", "indent"}
\* The trees of at most MaxRaws segments with types in Types; the end of the
\* file comes last or not at all.  A segment's uid is its place in the tree.
TreesOf(Types) ==
    UNION {{[i \in 1..n |-> Seg(i, t[i], DefaultVal(t[i]))] :
               t \in {f \in [1..n -> Types \cup {"end_of_file"}] :
                         \A i \in 1..(n - 1) : f[i] # "end_of_file"}} :
           n \in 1..MaxRaws}

\* The targets a call can name: a leaf or a run of leaves of the tree.
TreeSlices == {SubSeq(all_raws, a, b) : a, b \in 1..Len(all_raws)} \ {<<>>}
SeqSegs == {RawsOf(elements)[i] : i \in 1..Len(RawsOf(elements))}
TreeSegs == {all_raws[i] : i \in 1..Len(all_raws)}

\* The arguments of a call: the target's leaves, the tokens inserted or put
\* in its place, pos / filter / sides, strip_newlines, and the element array
\* handed to the constructor.
Args(target, edit, opt, strip, elems) ==
    [target |-> target, edit |-> edit, opt |-> opt, strip |-> strip,
     elems |-> elems]
NoArgs == Args(<<>>, <<>>, "", FALSE, <<>>)

Call(op, res, args, self_elements) ==
    [op |-> op, ok |-> res.ok, err |-> res.err,
     target |-> args.target, edit |-> args.edit, opt |-> args.opt,
     strip |-> args.strip, elems |-> args.elems,
     pre_elements |-> elements, pre_fixes |-> embodied_fixes,
     pre_depth |-> depth_map, pre_uid |-> uid,
     self_elements |-> self_elements, self_fixes |-> embodied_fixes]

\* The call returns: the chain goes on with the sequence returned.  The call
\* raises: the receiver is what is left.
Returns(op, result, args, self_elements) ==
    \E res \in {result} :
    /\ last' = Call(op, res, args, self_elements)
    /\ elements' = IF res.ok THEN res.elements ELSE self_elements
    /\ embodied_fixes' = IF res.ok THEN res.embodied_fixes ELSE embodied_fixes
    /\ depth_map' = res.depth_map
    /\ uid' = res.uid
    /\ all_raws' = all_raws

\* The record of a state no call has led to yet.
NoCall(op, ok, err) ==
    [op |-> op, ok |-> ok, err |-> err,
     target |-> <<>>, edit |-> <<>>, opt |-> "", strip |-> FALSE, elems |-> <<>>,
     pre_elements |-> <<>>, pre_fixes |-> <<>>, pre_depth |-> <<>>,
     pre_uid |-> 0,
     self_elements |-> <<>>, self_fixes |-> <<>>]

Init ==
    /\ all_raws \in TreesOf(TreeTypes)
    /\ LET res == from_root(all_raws, Len(all_raws) + 1) IN
       /\ elements = res.elements
       /\ embodied_fixes = res.embodied_fixes
       /\ depth_map = res.depth_map
       /\ uid = res.uid
       /\ last = NoCall("from_root", res.ok, res.err)
    /\ nedits = 0

CanEdit == last.ok /\ nedits < MaxEdits

Without(target) ==
    /\ CanEdit
    /\ nedits' = nedits + 1
    /\ Returns("without", without(self, target, uid),
               Args(<<target>>, <<>>, "", FALSE, <<>>), elements)

InsertTypes == {"code", "whitespace", "newline", "indent"}
Insert(type, target, pos) ==
    /\ CanEdit
    /\ nedits' = nedits + 1
    /\ LET insertion == Seg(uid, type, DefaultVal(type)) IN
       Returns("insert", insert(self, insertion, target, pos, uid + 1),
               Args(<<target>>, <<insertion>>, pos, FALSE, <<>>), elements)

\* The replacements tried: nothing, and a block followed by a space.
Edits == {<<>>, <<Seg(uid, "code", 0), Seg(uid + 1, "whitespace", 1)>>}
Replace(target_raws, edit) ==
    /\ CanEdit
    /\ nedits' = nedits + 1
    /\ Returns("replace", replace(self, target_raws, edit, uid + Len(edit)),
               Args(target_raws, edit, "", FALSE, <<>>), elements)

Filters == {"all", "newline", "inline", "line_break"}
Respace(strip_newlines, filter) ==
    /\ CanEdit
    /\ nedits' = nedits + 1
    /\ Returns("respace", respace(self, strip_newlines, filter, uid),
               Args(<<>>, <<>>, filter, strip_newlines, <<>>), elements)

\* ReflowSequence(elements=...) on the elements held with the k-th left out.
Construct(k) ==
    /\ CanEdit
    /\ nedits' = nedits + 1
    /\ LET elems == SubAt(elements, (1..Len(elements)) \ {k}) IN
       Returns("construct", ReflowSequence(elems, depth_map, embodied_fixes, uid),
               Args(<<>>, <<>>, "", FALSE, elems), elements)

Rebreak ==
    /\ last.ok
    /\ nedits' = nedits
    /\ Returns("rebreak", rebreak(self, uid), NoArgs, elements)

Reindent ==
    /\ last.ok
    /\ nedits' = nedits
    /\ \E r \in {reindent(self, uid)} :
          Returns("reindent", r.res, NoArgs, r.self_elements)

Next ==
    \/ \E target \in SeqSegs \cup TreeSegs : Without(target)
    \/ \E type \in InsertTypes, target \in SeqSegs \cup TreeSegs,
          pos \in {"before", "after"} : Insert(type, target, pos)
    \/ \E target_raws \in TreeSlices, edit \in Edits : Replace(target_raws, edit)
    \/ \E strip_newlines \in BOOLEAN, filter \in Filters :
          Respace(strip_newlines, filter)
    \/ \E k \in 0..Len(elements) : Construct(k)
    \/ Rebreak
    \/ Reindent

Spec == Init /\ [][Next]_vars

\* ------------------------------------------------------------ around a target
\* A parsed tree, and one call of ReflowSequence.from_around_target on it.
Sides == {"both", "before", "after"}
AroundTypes == TreeTypes \cup {"comment"}

InitAround ==
    /\ all_raws \in TreesOf(AroundTypes)
    /\ elements = <<>>
    /\ embodied_fixes = <<>>
    /\ depth_map = <<>>
    /\ uid = Len(all_raws) + 1
    /\ last = NoCall("parse", TRUE, "")
    /\ nedits = 0

FromAroundTarget(target_raws, sides) ==
    /\ last.op = "parse"
    /\ nedits' = nedits
    /\ Returns("from_around_target",
               from_around_target(all_raws, target_raws, sides, uid),
               Args(target_raws, <<>>, sides, FALSE, <<>>), elements)

NextAround ==
    \E target_raws \in TreeSlices, sides \in Sides :
        FromAroundTarget(target_raws, sides)

SpecAround == InitAround /\ [][NextAround]_vars

\* ------------------------------------------------------------ properties
Mutators == {"without", "insert", "replace", "respace"}
Alternates(elems) ==
    \A i \in 1..(Len(elems) - 1) : elems[i].kind # elems[i + 1].kind
IsPrefix(a, b) == Len(a) <= Len(b) /\ SubSeq(b, 1, Len(a)) = a
\* The place (1-based) of the element of elems that holds seg, 0 if none.
HolderOf(elems, seg) ==
    IF \E i \in 1..Len(elems) : \E j \in 1..Len(elems[i].segments) :
           elems[i].segments[j] = seg
    THEN CHOOSE i \in 1..Len(elems) : \E j \in 1..Len(elems[i].segments) :
             elems[i].segments[j] = seg
    ELSE 0
\* The place (1-based) of seg in raws, 0 if none.
PlaceOf(raws, seg) ==
    IF \E i \in 1..Len(raws) : raws[i] = seg
    THEN CHOOSE i \in 1..Len(raws) : raws[i] = seg
    ELSE 0
LastOf(s) == s[Len(s)]

\* C1: the element array of every sequence a successful call returns
\* (without, insert, replace, respace, reindent, and the constructor itself)
\* strictly alternates: no two adjacent elements are of the same kind.
C1_Alternation == last.ok => Alternates(elements)

\* C1 witness: a mutator called on a sequence returned a sequence of at
\* least three elements that differs from its receiver.
C1_Witness ==
    /\ last.op \in Mutators \cup {"reindent"}
    /\ last.ok
    /\ Len(elements) >= 3
    /\ elements # last.pre_elements

\* C2: the fix list of the sequence a mutator (without, insert, replace,
\* respace) returns is the receiver's fix list followed by the new fixes, so
\* no fix accumulated earlier in the chain is lost.
C2_FixesAccumulate ==
    (last.op \in Mutators /\ last.ok) => IsPrefix(last.pre_fixes, embodied_fixes)

\* C3: after any mutator call (without, insert, replace, respace, rebreak,
\* reindent), failed or not, the receiver's element array and fix list are
\* what they were before the call; the per-line evaluation of reindent
\* edits a working copy only.
C3_ReceiverUnchanged ==
    last.op \in Mutators \cup {"rebreak", "reindent"} =>
        /\ last.self_elements = last.pre_elements
        /\ last.self_fixes = last.pre_fixes

\* C3 witness: reindent returned a sequence whose elements differ from the
\* receiver's, so the evaluation pass did edit its buffer.
C3_Witness ==
    /\ last.op = "reindent"
    /\ last.ok
    /\ elements # last.pre_elements
    /\ embodied_fixes # <<>>

\* C4: rebreak and reindent called on a sequence with a non-empty fix list
\* raise, returning no sequence and no fixes; and every successful without,
\* insert and replace, and every respace that changed an element, returns a
\* sequence with a non-empty fix list, so that a rebreak or reindent chained
\* right after it raises.
C4_FailsOnFixes ==
    /\ (last.op \in {"rebreak", "reindent"} /\ last.pre_fixes # <<>>) =>
           /\ ~last.ok
           /\ last.err = "NotImplementedError"
           /\ elements = last.pre_elements
           /\ embodied_fixes = last.pre_fixes
    /\ (last.op \in {"without", "insert", "replace"} /\ last.ok) =>
           embodied_fixes # <<>>
    /\ (last.op = "respace" /\ last.ok /\ elements # last.pre_elements) =>
           embodied_fixes # <<>>

\* C4 witness: a reindent chained right after a without has raised: the
\* receiver's one fix is the delete of a block's token, which only without
\* generates.
C4_Witness ==
    /\ last.op = "reindent"
    /\ ~last.ok
    /\ Len(last.pre_fixes) = 1
    /\ last.pre_fixes[1].edit_type = "delete"
    /\ last.pre_fixes[1].anchor[1].type = "code"

\* The target of the last call is the token of a block of the receiver that
\* is neither its first nor its last element.
C5_InteriorBlock ==
    /\ last.op = "without"
    /\ LET i == HolderOf(last.pre_elements, last.target[1]) IN
       /\ 1 < i /\ i < Len(last.pre_elements)
       /\ isBlock(last.pre_elements[i])

\* C5: without(target), for the token of a block at an interior index i of
\* an n-element sequence, returns n-2 elements: the elements before i-1 and
\* after i+1 unchanged and in order, the block gone, and at i-1 one point
\* holding the tokens of the old point i-1 followed by those of the old
\* point i+1; the new fix is a delete of the target.
C5_Without ==
    C5_InteriorBlock =>
        LET pre == last.pre_elements
            n == Len(pre)
            i == HolderOf(pre, last.target[1])
        IN  /\ last.ok
            /\ Len(elements) = n - 2
            /\ \A j \in 1..(i - 2) : elements[j] = pre[j]
            /\ \A j \in (i + 2)..n : elements[j - 2] = pre[j]
            /\ elements[i - 1] =
                   ReflowPoint(pre[i - 1].segments \o pre[i + 1].segments)
            /\ embodied_fixes # <<>>
            /\ LastOf(embodied_fixes) = LintFix_delete(last.target[1])

\* C5 witness: without has removed an interior block whose two neighbouring
\* points both held tokens.
C5_Witness ==
    /\ C5_InteriorBlock
    /\ last.ok
    /\ LET i == HolderOf(last.pre_elements, last.target[1]) IN
       /\ last.pre_elements[i - 1].segments # <<>>
       /\ last.pre_elements[i + 1].segments # <<>>

\* The last call broke a precondition: without on the first or last
\* element or on a token of a point, insert of a spacing token, insert
\* relative to a token of a point, construction from an empty or
\* non-alternating array.
C6_Violation ==
    \/ /\ last.op = "without"
       /\ LET i == HolderOf(last.pre_elements, last.target[1]) IN
          /\ i # 0
          /\ i = 1 \/ i = Len(last.pre_elements) \/ isPoint(last.pre_elements[i])
    \/ /\ last.op = "insert"
       /\ LET i == HolderOf(last.pre_elements, last.target[1]) IN
          /\ i # 0
          /\ \/ last.edit[1].type \in {"whitespace", "newline", "indent"}
             \/ isPoint(last.pre_elements[i])
    \/ /\ last.op = "construct"
       /\ last.elems = <<>> \/ ~Alternates(last.elems)

\* C6: every precondition-violating call raises and returns no sequence,
\* and leaves the receiver's element array, fix list and depth map as they
\* were.
C6_PreconditionErrors ==
    C6_Violation =>
        /\ ~last.ok
        /\ elements = last.pre_elements
        /\ embodied_fixes = last.pre_fixes
        /\ depth_map = last.pre_depth

\* The last call inserts a non-spacing token relative to the token of a
\* block of the receiver.
C7_BlockTarget ==
    /\ last.op = "insert"
    /\ last.edit[1].type \notin {"whitespace", "newline", "indent"}
    /\ LET i == HolderOf(last.pre_elements, last.target[1]) IN
       i # 0 /\ isBlock(last.pre_elements[i])

\* C7: insert(newToken, target, pos), for a non-spacing newToken and the
\* token of a block at index i of an n-element sequence, returns n+2
\* elements: a new one-token block of newToken right before the target
\* block (pos = before) or right after it (pos = after), one empty point
\* between the two, every original element in its original order; the new
\* fix is create-before, respectively create-after, anchored on the target.
C7_Insert ==
    C7_BlockTarget =>
        LET pre == last.pre_elements
            n == Len(pre)
            i == HolderOf(pre, last.target[1])
            new_block == ReflowBlock(last.edit)
            empty == ReflowPoint(<<>>)
        IN  /\ last.ok
            /\ Len(elements) = n + 2
            /\ IF last.opt = "before"
               THEN /\ elements = SubSeq(pre, 1, i - 1) \o <<new_block, empty>>
                                      \o SubSeq(pre, i, n)
                    /\ LastOf(embodied_fixes) =
                           LintFix_create_before(last.target[1], last.edit)
               ELSE /\ elements = SubSeq(pre, 1, i) \o <<empty, new_block>>
                                      \o SubSeq(pre, i + 1, n)
                    /\ LastOf(embodied_fixes) =
                           LintFix_create_after(last.target[1], last.edit)

\* C7 witness: a token was inserted after a block that has elements on both
\* sides.
C7_Witness ==
    /\ C7_BlockTarget
    /\ last.ok
    /\ last.opt = "after"
    /\ LET i == HolderOf(last.pre_elements, last.target[1]) IN
       1 < i /\ i < Len(last.pre_elements)

\* C8: the flattened token run of the sequence replace(target, edit)
\* returns is the receiver's run with the range from the target's first
\* leaf to its last leaf replaced by the leaves of edit, every other token
\* kept once and in order; its element array is the one construction from
\* raw tokens builds from that run.
C8_Replace ==
    (last.op = "replace" /\ last.ok) =>
        LET raws == RawsOf(last.pre_elements)
            first == PlaceOf(raws, last.target[1])
            final == PlaceOf(raws, LastOf(last.target))
        IN  /\ RawsOf(elements) = SubSeq(raws, 1, first - 1) \o last.edit
                                      \o SubSeq(raws, final + 1, Len(raws))
            /\ elements = elements_from_raw_segments(RawsOf(elements))

\* C8 witness: replace put two tokens in the place of a target of two
\* leaves, with tokens of the receiver left on a side.
C8_Witness ==
    /\ last.op = "replace"
    /\ last.ok
    /\ Len(last.target) = 2
    /\ Len(last.edit) = 2
    /\ Len(RawsOf(last.pre_elements)) > 2

\* The respace of the receiver's points in turn, under the filter of the
\* last call: after place k, the fixes and the uid counter so far, and for a
\* point the filter lets through (kept) the point respaced.  A point is a
\* line-break point when, respaced, it holds a newline, or when the
\* end-of-file block follows it.
C9_Trace ==
    LET pre == last.pre_elements
        f[k \in 0..Len(pre)] ==
            IF k = 0
            THEN [fixes |-> last.pre_fixes, uid |-> last.pre_uid,
                  kept |-> FALSE, point |-> <<>>]
            ELSE IF ~isPoint(pre[k])
            THEN [f[k - 1] EXCEPT !.kept = FALSE]
            ELSE LET r == respace_point(
                              pre[k],
                              IF k > 1 THEN <<pre[k - 1]>> ELSE <<>>,
                              IF k < Len(pre) THEN <<pre[k + 1]>> ELSE <<>>,
                              f[k - 1].fixes, last.strip, f[k - 1].uid)
                     line_break ==
                         \/ \E j \in 1..Len(r.point.segments) :
                                r.point.segments[j].type = "newline"
                         \/ /\ k < Len(pre)
                            /\ pre[k + 1].segments[1].type = "end_of_file"
                     kept == CASE last.opt = "newline" -> line_break
                               [] last.opt = "inline" -> ~line_break
                               [] OTHER -> TRUE
                 IN  IF kept
                     THEN [fixes |-> r.fixes, uid |-> r.uid,
                           kept |-> TRUE, point |-> r.point]
                     ELSE [f[k - 1] EXCEPT !.kept = FALSE]
    IN  f

C10_AroundTarget ==
    last.op = "from_around_target" =>
        LET n == Len(all_raws)
            first == PlaceOf(all_raws, last.target[1])
            final == PlaceOf(all_raws, LastOf(last.target))
            before == {i \in 1..(first - 1) : is_code(all_raws[i])}
            after == {i \in (final + 1)..n : is_code(all_raws[i])}
            start == IF before = {} THEN 1
                     ELSE CHOOSE i \in before : \A j \in before : j <= i
            stop == IF after = {} THEN n
                    ELSE CHOOSE i \in after : \A j \in after : i <= j
        IN  /\ last.ok
            /\ \E a \in 1..first, b \in final..n :
                   /\ RawsOf(elements) = SubSeq(all_raws, a, b)
                   /\ last.opt \in {"both", "before"} => a = start
                   /\ last.opt \in {"both", "after"} => b = stop

\* ------------------------------------------------------------ raw runs
\* Longest run of raw segments handed to a pass on its own.
MaxRun == 4

\* The runs of at most max segments, each of a kind (a type and a val) in
\* Kinds.  A segment's uid is its place in the run.
RunsOf(Kinds, max) ==
    UNION {{[i \in 1..n |-> Seg(i, k[i].type, k[i].val)] : k \in [1..n -> Kinds]} :
           n \in 0..max}
Kind(type, val) == [type |-> type, val |-> val]

\* Construction of the elements from a run of raw segments, on its own.
BuildKinds ==
    {Kind("code", 0), Kind("whitespace", 1), Kind("newline", 0),
     Kind("indent", 1), Kind("dedent", -1),
     Kind("placeholder", 1), Kind("placeholder", -1)}

InitBuild ==
    /\ all_raws \in RunsOf(BuildKinds, MaxRun)
    /\ elements = <<>>
    /\ embodied_fixes = <<>>
    /\ depth_map = <<>>
    /\ uid = Len(all_raws) + 1
    /\ last = NoCall("parse", TRUE, "")
    /\ nedits = 0

ElementsFromRawSegments ==
    /\ last.op = "parse"
    /\ elements' = elements_from_raw_segments(all_raws)
    /\ last' = NoCall("elements_from_raw_segments", TRUE, "")
    /\ UNCHANGED <<all_raws, embodied_fixes, depth_map, uid, nedits>>

NextBuild == ElementsFromRawSegments

SpecBuild == InitBuild /\ [][NextBuild]_vars

\* The elements are built from the run so that: the array alternates, every
\* block holds one token, which is not spacing, every point holds spacing
\* tokens only, and the tokens of the elements in order are the run.
C11_BuiltFrom(Spacing(_)) ==
    /\ Alternates(elements)
    /\ RawsOf(elements) = all_raws
    /\ \A i \in 1..Len(elements) :
           IF isBlock(elements[i])
           THEN /\ Len(elements[i].segments) = 1
                /\ ~Spacing(elements[i].segments[1])
           ELSE \A j \in 1..Len(elements[i].segments) :
                    Spacing(elements[i].segments[j])

\* C11 as stated: construction from any raw run gives an alternating array
\* in which every token that is not a whitespace, newline or indent marker
\* is one single-token block, every maximal run of such spacing tokens is
\* one point (empty between two adjacent blocks, leading or trailing at the
\* ends), and the tokens of the elements in order are the input run.
C11_RoundTrip ==
    last.op = "elements_from_raw_segments" =>
        C11_BuiltFrom(LAMBDA seg : seg.type \in {"whitespace", "newline", "indent", "dedent"})

\* C11 amended: the same, with a literal placeholder whose consumed source
\* is whitespace only counted as a spacing token too.
C11_RoundTripAmended ==
    last.op = "elements_from_raw_segments" =>
        C11_BuiltFrom(LAMBDA seg :
            \/ seg.type \in {"whitespace", "newline", "indent", "dedent"}
            \/ (seg.type = "placeholder" /\ seg.val = -1))

\* C11 witness: a run with leading spacing, two adjacent content tokens and
\* trailing spacing was built into point, block, empty point, block, point.
C11_Witness ==
    /\ last.op = "elements_from_raw_segments"
    /\ Len(elements) = 5
    /\ isPoint(elements[1]) /\ elements[1].segments # <<>>
    /\ elements[3].segments = <<>>
    /\ elements[5].segments # <<>>

\* ------------------------------------------------------------ the crawl
\* The crawl over the elements of a run, one element a step.  The end of
\* the file comes last in a run or not at all.
CrawlKinds ==
    {Kind("code", 0), Kind("whitespace", 1), Kind("newline", 0),
     Kind("indent", 1), Kind("dedent", -1), Kind("end_of_file", 0)}

\* Longest run crawled.
MaxCrawl == 4

EndsFile(run) ==
    \A i \in 1..Len(run) : run[i].type = "end_of_file" => i = Len(run)

CrawlAt(idx, st) == [op |-> "crawl", idx |-> idx, st |-> st]

InitCrawl ==
    /\ all_raws \in {run \in RunsOf(CrawlKinds, MaxCrawl) : run # <<>> /\ EndsFile(run)}
    /\ elements = elements_from_raw_segments(all_raws)
    /\ embodied_fixes = <<>>
    /\ depth_map = <<>>
    /\ uid = Len(all_raws) + 1
    /\ last = CrawlAt(0, CrawlInit)
    /\ nedits = 0

\* for idx, elem in enumerate(elements): one pass of the loop.
CrawlStep ==
    /\ last.st.ok
    /\ last.idx < Len(elements)
    /\ \E st \in {crawl_step(elements, last.idx, last.st)} :
           last' = CrawlAt(last.idx + 1, st)
    /\ UNCHANGED <<all_raws, elements, embodied_fixes, depth_map, uid, nedits>>

NextCrawl == CrawlStep

SpecCrawl == InitCrawl /\ [][NextCrawl]_vars

\* The sum of the indent values of the tokens of the elements before idx.
ImpulseBefore(idx) ==
    FoldLeft(LAMBDA acc, seg : acc + indent_val(seg), 0,
             Flatten([i \in 1..idx |-> elements[i].segments]))

\* C13: every emitted indent point's initial balance is the sum of the
\* impulses of all points at lower indices, emitted or not, and its closing
\* balance is that sum plus its own impulse.
C13_BalanceConserved ==
    \A k \in 1..Len(last.st.points) :
        LET p == last.st.points[k] IN
        /\ p.initial_indent_balance = ImpulseBefore(p.idx)
        /\ closing_indent_balance(p) = ImpulseBefore(p.idx + 1)

\* C13 witness: a point with an impulse emitted after a point that changed
\* the balance and one that was not emitted.
C13_Witness ==
    \E k \in 1..Len(last.st.points) :
        LET p == last.st.points[k] IN
        /\ p.initial_indent_balance # 0
        /\ p.indent_impulse # 0
        /\ \E i \in 0..(p.idx - 1) :
               /\ isPoint(At(elements, i))
               /\ \A q \in 1..Len(last.st.points) : last.st.points[q].idx # i

\* C14: after every crawl step the untaken indents hold no value above the
\* updated balance, so no emitted point's untaken indents hold a value above
\* its initial balance.
C14_Pruned ==
    /\ last.st.ok =>
           \A x \in 1..Len(last.st.untaken_indents) :
               last.st.untaken_indents[x] <= last.st.indent_balance
    /\ \A k \in 1..Len(last.st.points) :
           LET p == last.st.points[k] IN
           \A x \in 1..Len(p.untaken_indents) :
               p.untaken_indents[x] <= p.initial_indent_balance

\* C14 witness: a point was emitted with an untaken indent, and a later step
\* lowered the balance and pruned it.
C14_Witness ==
    /\ last.st.ok
    /\ last.st.untaken_indents = <<>>
    /\ \E k \in 1..Len(last.st.points) :
           last.st.points[k].untaken_indents # <<>>

\* The point at idx is one the crawl is to emit: it holds a newline, or
\* has an impulse or a trough, or is the first element, or stands just
\* before the end of the file.
Meaningful(idx) ==
    LET elem == At(elements, idx)
        it == get_indent_impulse(elem)
    IN  /\ isPoint(elem)
        /\ \/ has_newline(elem.segments)
           \/ it.impulse # 0 \/ it.trough # 0
           \/ idx = 0
           \/ /\ idx + 1 < Len(elements)
              /\ At(elements, idx + 1).segments[1].type = "end_of_file"

C20_NoError == last.st.ok

C20_Emits ==
    \A i \in 0..(last.idx - 1) :
        Meaningful(i) <=> \E k \in 1..Len(last.st.points) : last.st.points[k].idx = i

C20_Ordered ==
    \A k \in 1..Len(last.st.points) : \A q \in 1..(k - 1) :
        last.st.points[q].idx < last.st.points[k].idx

C20_LastBreak ==
    \A k \in 1..Len(last.st.points) :
        LET p == last.st.points[k]
            breaks == {last.st.points[q].idx : q \in {q \in 1..(k - 1) :
                           last.st.points[q].is_line_break}}
        IN  p.last_line_break_idx =
                IF breaks = {} THEN NoIdx
                ELSE CHOOSE b \in breaks : \A c \in breaks : c <= b

\* C20: the crawl visits every element of a valid sequence without error
\* and emits a point exactly when it holds a newline, has an impulse or a
\* trough, is at index 0 or stands just before the end of the file, in
\* increasing order of index, each with the index of the latest earlier
\* point emitted as a line break.
C20_Crawl ==
    /\ C20_NoError
    /\ C20_Emits
    /\ C20_Ordered
    /\ C20_LastBreak

\* ------------------------------------------------------------ the indent pass
\* lint_indent_points over the elements of a file, one call of it a step
\* and one line of its last loop a step.  A second pass takes the elements
\* the first returned.
LintKinds ==
    {Kind("code", 0), Kind("whitespace", 1), Kind("newline", 0),
     Kind("indent", 1), Kind("dedent", -1), Kind("comment", 0),
     Kind("placeholder", 1)}

\* Longest file linted, the end of the file not counted.
MaxLint == 4

\* The lexer gives the whitespace between two other segments as one
\* segment: no two whitespace segments have nothing or only indent markers
\* between them.
Lexed(run) ==
    \A i, j \in 1..Len(run) :
        (i < j /\ run[i].type = "whitespace" /\ run[j].type = "whitespace") =>
            \E k \in (i + 1)..(j - 1) : ~is_type(run[k], {"indent"})

\* The files: a run, with or without the end of file segment after it.
LintFiles ==
    LET bodies == {run \in RunsOf(LintKinds, MaxLint) : Lexed(run)} IN
    (bodies \ {<<>>})
        \cup {Append(b, Seg(Len(b) + 1, "end_of_file", 0)) : b \in bodies}

single_indent == construct_single_indent(indent_unit, tab_space_size)

\* The position in lint_indent_points: the call that returned last, the
\* lines as it left them and as it found them (pre_lines); in the last loop
\* the number of lines evaluated (i) and the evaluation state before (pre)
\* and after (st) the latest of them.
LintAt(op, ok, pre_lines, lines, i, pre, st) ==
    [op |-> op, ok |-> ok, pre_lines |-> pre_lines, lines |-> lines,
     i |-> i, pre |-> pre, st |-> st]

NoEval == EvalState(TRUE, <<>>, <<>>, <<>>, 0)

InitLint ==
    /\ all_raws \in LintFiles
    /\ elements = elements_from_raw_segments(all_raws)
    /\ embodied_fixes = <<>>
    /\ depth_map = <<>>
    /\ uid = Len(all_raws) + 1
    /\ last = LintAt("parse", TRUE, <<>>, <<>>, 0, NoEval, NoEval)
    /\ nedits = 0

\* lines = _map_line_buffers(elements)
MapLineBuffers ==
    /\ last.op = "parse"
    /\ \E crawl \in {crawl_indent_points(elements)} :
           last' = IF crawl.ok
                   THEN LintAt("map_line_buffers", TRUE, <<>>,
                               map_line_buffers(crawl.points), 0, NoEval, NoEval)
                   ELSE LintAt("map_line_buffers", FALSE, <<>>, <<>>, 0, NoEval, NoEval)
    /\ UNCHANGED <<all_raws, elements, embodied_fixes, depth_map, uid, nedits>>

\* _revise_templated_lines(lines, elements)
ReviseTemplatedLines ==
    /\ last.op = "map_line_buffers" /\ last.ok
    /\ \E r \in {revise_templated_lines(last.lines, elements)} :
           last' = LintAt("revise_templated_lines", r.ok, last.lines, r.lines,
                          0, NoEval, NoEval)
    /\ UNCHANGED <<all_raws, elements, embodied_fixes, depth_map, uid, nedits>>

\* _revise_comment_lines(lines, elements); then fixes = [],
\* forced_indents = [], elem_buffer = elements.copy()
ReviseCommentLines ==
    /\ last.op = "revise_templated_lines" /\ last.ok
    /\ \E lines \in {revise_comment_lines(last.lines, elements)},
          st \in {EvalState(TRUE, elements, <<>>, <<>>, uid)} :
           last' = LintAt("revise_comment_lines", TRUE, last.lines, lines, 0, st, st)
    /\ UNCHANGED <<all_raws, elements, embodied_fixes, depth_map, uid, nedits>>

\* for line in lines: fixes += _evaluate_indent_point_buffer(...), one pass.
EvaluateLine ==
    /\ last.op \in {"revise_comment_lines", "evaluate"} /\ last.ok
    /\ last.i < Len(last.lines)
    /\ \E st \in {evaluate_indent_point_buffer(last.st, last.lines[last.i + 1],
                                               single_indent)} :
           last' = LintAt("evaluate", st.ok, last.pre_lines, last.lines,
                          last.i + 1, last.st, st)
    /\ UNCHANGED <<all_raws, elements, embodied_fixes, depth_map, uid, nedits>>

\* return elem_buffer, fixes
Returned ==
    /\ last.op \in {"revise_comment_lines", "evaluate"} /\ last.ok
    /\ last.i = Len(last.lines)

\* The elements returned are linted again.
Relint ==
    /\ Returned
    /\ nedits = 0
    /\ nedits' = 1
    /\ elements' = last.st.elements
    /\ embodied_fixes' = last.st.fixes
    /\ uid' = last.st.uid
    /\ last' = LintAt("parse", TRUE, <<>>, <<>>, 0, NoEval, NoEval)
    /\ UNCHANGED <<all_raws, depth_map>>

NextLint ==
    \/ MapLineBuffers
    \/ ReviseTemplatedLines
    \/ ReviseCommentLines
    \/ EvaluateLine
    \/ Relint

SpecLint == InitLint /\ [][NextLint]_vars

\* C12: the indent pass is idempotent: run on the elements a first pass
\* returned, it completes, yields no fix and returns the elements unchanged.
C12_Idempotent ==
    nedits = 1 =>
        /\ last.ok
        /\ last.op = "evaluate" =>
               /\ last.st.fixes = <<>>
               /\ last.st.elements = elements

\* The position of the first newline of segs (past the end when none).
FirstNewline(segs) ==
    LET nl == {i \in 1..Len(segs) : segs[i].type = "newline"} IN
    IF nl = {} THEN Len(segs) + 1 ELSE CHOOSE i \in nl : \A j \in nl : i <= j

\* The whitespace a line starts with: what follows the last newline of the
\* point that broke the line before it; for the first line of the file,
\* what the file starts with, up to its first newline.
LeadingWhitespace(line, elems) ==
    LET lb == line.indent_points[Len(line.indent_points)].last_line_break_idx IN
    IF lb # NoIdx THEN get_indent(At(elems, lb))
    ELSE IF isPoint(At(elems, 0))
    THEN element_raw(ReflowPoint(SubSeq(At(elems, 0).segments, 1,
                                        FirstNewline(At(elems, 0).segments) - 1)))
    ELSE <<>>

\* The line evaluated last, what "First handle starting indent" made of the
\* state before it, and the indent wanted of the line.
EvaluatedLine == last.lines[last.i]
StartingIndent == eval_starting_indent(last.pre, EvaluatedLine, single_indent)
DesiredStartingIndent ==
    Repeat(single_indent, desired_indent_units(EvaluatedLine, last.pre.forced_indents))

\* SELECT, a point holding an indent marker and a newline but no
\* whitespace, then 1; and the end of the file.
ScenarioA ==
    [k \in 1..Len(all_raws) |-> all_raws[k].type]
        = <<"code", "indent", "newline", "code", "end_of_file">>

\* C16: for every line the indent pass replaces the line's leading
\* whitespace exactly when it differs from the single indent repeated
\* desired-units times, and sets it to that; in Scenario A the one fix of
\* the pass is one indent unit created before the 1.
C16_LeadingWhitespace ==
    /\ (last.op = "evaluate" /\ last.ok) =>
           /\ LeadingWhitespace(EvaluatedLine, StartingIndent.elements)
                  = DesiredStartingIndent
           /\ StartingIndent.fixes # last.pre.fixes
                  <=> LeadingWhitespace(EvaluatedLine, last.pre.elements)
                          # DesiredStartingIndent
    /\ (ScenarioA /\ nedits = 0 /\ Returned) =>
           last.st.fixes = <<LintFix_create_before(all_raws[4],
                                 <<Seg(uid, "whitespace", tab_space_size)>>)>>

\* Lines i and j (0-based) of the lines found are template-only lines of
\* one block.
SameBlock(i, j) ==
    LET a == At(last.pre_lines, i)
        b == At(last.pre_lines, j)
    IN  /\ is_all_templates(a, elements) /\ is_all_templates(b, elements)
        /\ template_line_ok(a, elements) /\ template_line_ok(b, elements)
        /\ block_uuid(template_segment(a, elements))
               = block_uuid(template_segment(b, elements))

\* C17: template reconciliation of two template-only lines of one block
\* with different balances completes without error and leaves both with one
\* balance, whatever the number of lines between them, none included.
C17_TemplateLines ==
    last.op = "revise_templated_lines" =>
        \A i, j \in 0..(Len(last.pre_lines) - 1) :
            (/\ i < j
             /\ SameBlock(i, j)
             /\ At(last.pre_lines, i).initial_indent_balance
                    # At(last.pre_lines, j).initial_indent_balance) =>
                /\ last.ok
                /\ At(last.lines, i).initial_indent_balance
                       = At(last.lines, j).initial_indent_balance

\* The first line after line k (0-based) that is not a comment-only line,
\* Len(lines) when there is none.
NextNonComment(lines, k) ==
    LET later == {m \in (k + 1)..(Len(lines) - 1) :
                      ~is_all_comments(At(lines, m), elements)}
    IN  IF later = {} THEN Len(lines) ELSE CHOOSE m \in later : \A n \in later : m <= n

\* C18: after comment reconciliation every comment-only line has the
\* balance the nearest following line that is not comment-only has after
\* template reconciliation, 0 when no such line follows; every other line
\* keeps its balance.
C18_CommentLines ==
    last.op = "revise_comment_lines" =>
        /\ Len(last.lines) = Len(last.pre_lines)
        /\ \A k \in 0..(Len(last.lines) - 1) :
               LET n == NextNonComment(last.pre_lines, k) IN
               At(last.lines, k).initial_indent_balance =
                   IF ~is_all_comments(At(last.pre_lines, k), elements)
                   THEN At(last.pre_lines, k).initial_indent_balance
                   ELSE IF n = Len(last.lines) THEN 0
                   ELSE At(last.pre_lines, n).initial_indent_balance

\* C18 witness: a comment-only line was given the balance, not 0 and not
\* its own, of the line after it.
C18_Witness ==
    /\ last.op = "revise_comment_lines"
    /\ \E k \in 0..(Len(last.lines) - 2) :
           /\ is_all_comments(At(last.pre_lines, k), elements)
           /\ At(last.lines, k).initial_indent_balance
                  # At(last.pre_lines, k).initial_indent_balance
           /\ At(last.lines, k).initial_indent_balance # 0

\* ------------------------------------------------------------ raw text
\* ReflowSequence.get_raw
get_raw(elems) == Flatten([i \in 1..Len(elems) |-> element_raw(elems[i])])

\* C15: when respace, rebreak or reindent returns a sequence with no fix
\* more than the receiver had, the raw text of the result is the raw text
\* of the receiver.
C15_RoundTrip ==
    (/\ last.op \in {"respace", "rebreak", "reindent"}
     /\ last.ok
     /\ embodied_fixes = last.pre_fixes) =>
        get_raw(elements) = get_raw(last.pre_elements)

\* C15 witness: reindent returned, with no fix, a sequence that holds a
\* line break.
C15_Witness ==
    /\ last.op = "reindent"
    /\ last.ok
    /\ embodied_fixes = last.pre_fixes
    /\ \E i \in 1..Len(elements) : has_newline(elements[i].segments)
    /\ get_raw(elements) = get_raw(last.pre_elements)

\* ------------------------------------------------------------ results
\* seg.pos_marker: the segments of the parsed tree have a position in the
\* source; a segment made by a call has none.
has_pos_marker(seg) == seg.uid <= Len(all_raws)

\* "".join(seg.raw for seg in fix.edit).startswith(fix.anchor.raw)
edit_startswith_anchor(fix) ==
    LET edit_raw == Flatten([i \in 1..Len(fix.edit) |-> raw_of(fix.edit[i])])
        anchor_raw == Flatten([i \in 1..Len(fix.anchor) |-> raw_of(fix.anchor[i])])
    IN  IsPrefix(anchor_raw, edit_raw)

\* The fixes whose result is anchored after their own anchor.
anchors_after(fix) ==
    \/ fix.edit_type = "create_after"
    \/ (fix.edit_type = "replace" /\ edit_startswith_anchor(fix))

LintResult(anchor, fixes) == [anchor |-> anchor, fixes |-> fixes]

\* for anchor in segments[idx + 1 :]: if anchor.pos_marker: break
\* The loop variable after the loop: the first segment with a position, the
\* last segment when none has one, and what it was before when there is no
\* segment to go through (Unbound when it never was assigned).
Unbound == <<>>
hunt_forward(segments, idx, anchor) ==
    LET rest == PyFrom(segments, idx + 1)
        marked == {i \in 1..Len(rest) : has_pos_marker(rest[i])}
    IN  IF rest = <<>> THEN anchor
        ELSE IF marked = {} THEN <<rest[Len(rest)]>>
        ELSE <<rest[SetMin(marked)]>>

\* One pass of the loop of get_results, on acc = [ok, results, anchor].
results_step(segments, acc, fix) ==
    IF ~acc.ok THEN acc
    ELSE LET target == fix.anchor[Len(fix.anchor)]
             idx == index(segments, target)
             anchor == IF ~anchors_after(fix) \/ idx = NotFound THEN fix.anchor
                       ELSE hunt_forward(segments, idx, acc.anchor)
         IN  IF anchor = Unbound
             THEN [acc EXCEPT !.ok = FALSE]        \* UnboundLocalError
             ELSE [ok |-> TRUE, anchor |-> anchor,
                   results |-> Append(acc.results, LintResult(anchor, <<fix>>))]

\* ReflowSequence.get_results
get_results(elems, fixes) ==
    FoldLeft(LAMBDA acc, fix : results_step(RawsOf(elems), acc, fix),
             [ok |-> TRUE, anchor |-> Unbound, results |-> <<>>], fixes)

\* The chains of the mutators, each ended by a call of get_results.
GetResults ==
    /\ last.ok
    /\ \E r \in {get_results(elements, embodied_fixes)} :
           last' = [op |-> "get_results", ok |-> r.ok,
                    err |-> IF r.ok THEN "" ELSE "UnboundLocalError",
                    results |-> r.results]
    /\ UNCHANGED <<all_raws, elements, embodied_fixes, depth_map, uid, nedits>>

NextResults ==
    \/ (last.op # "get_results" /\ Next)
    \/ (last.op # "get_results" /\ GetResults)

SpecResults == Init /\ [][NextResults]_vars

\* The segments of the sequence after the one at (0-based) idx that have a
\* position in the source, as places in the sequence's segments.
LaterMarked(segments, idx) ==
    {i \in (idx + 2)..Len(segments) : has_pos_marker(segments[i])}

\* The anchor the result of fix is to have.
ResultAnchor(fix) ==
    LET segments == RawsOf(elements)
        idx == index(segments, fix.anchor[Len(fix.anchor)])
    IN  IF anchors_after(fix) /\ idx # NotFound
        THEN {<<segments[i]>> : i \in {i \in LaterMarked(segments, idx) :
                  \A j \in LaterMarked(segments, idx) : i <= j}}
        ELSE {fix.anchor}

\* C19: get_results never fails and returns one result per fix, in order;
\* the result of a create-after fix, or of a replace fix whose new text
\* starts with the anchor's text, whose anchor is still in the sequence is
\* anchored on the first later token with a position in the source; every
\* other result is anchored on its fix's own anchor.
C19_Results ==
    last.op = "get_results" =>
        /\ last.ok
        /\ Len(last.results) = Len(embodied_fixes)
        /\ \A k \in 1..Len(embodied_fixes) :
               /\ last.results[k].fixes = <<embodied_fixes[k]>>
               /\ last.results[k].anchor \in ResultAnchor(embodied_fixes[k])

\* ------------------------------------------------------------ untaken indents
\* The point the crawl emitted at its latest step, as a set (empty when the
\* step was over a block or emitted nothing).
LatestEmitted ==
    {last.st.points[k] : k \in {k \in 1..Len(last.st.points) :
                                    last.st.points[k].idx = last.idx - 1}}

Carried == {last.st.untaken_indents[x] : x \in 1..Len(last.st.untaken_indents)}

\* v was opened by an emitted point that is not a line break, and the
\* balance after no later point crawled has been below v.
OpenedAndHeld(v) ==
    \E k \in 1..Len(last.st.points) :
        LET q == last.st.points[k] IN
        /\ ~q.is_line_break
        /\ q.initial_indent_balance < v /\ v <= closing_indent_balance(q)
        /\ \A j \in (q.idx + 1)..(last.idx - 1) : ImpulseBefore(j + 1) >= v

\* C21 as stated: after the step of every emitted point with positive
\* impulse k and balance b before it, b+1 .. b+k are all among the untaken
\* indents carried on; and a value is carried only if an earlier point
\* opened it and the balance has not dropped below it since.
C21_Untaken ==
    last.st.ok =>
        /\ \A p \in LatestEmitted :
               \A v \in (p.initial_indent_balance + 1)..closing_indent_balance(p) :
                   v \in Carried
        /\ \A v \in Carried : OpenedAndHeld(v)

\* C21 amended: the same of every emitted point that is not a line break; a
\* point emitted as a line break registers nothing.
C21_UntakenAmended ==
    last.st.ok =>
        /\ \A p \in LatestEmitted :
               /\ ~p.is_line_break =>
                      \A v \in (p.initial_indent_balance + 1)..closing_indent_balance(p) :
                          v \in Carried
               /\ p.is_line_break =>
                      Carried \subseteq {p.untaken_indents[x] :
                                            x \in 1..Len(p.untaken_indents)}
        /\ \A v \in Carried : OpenedAndHeld(v)

\* C21 witness: a point that is not a line break opened two indents at
\* once, on top of a balance already raised, and both are carried on.
C21_Witness ==
    /\ last.st.ok
    /\ \E p \in LatestEmitted :
           /\ ~p.is_line_break
           /\ p.initial_indent_balance > 0
           /\ p.indent_impulse = 2
           /\ {p.initial_indent_balance + 1, p.initial_indent_balance + 2}
                  \subseteq Carried

\* ------------------------------------------------------------ line grouping
\* The indent points the crawl of the elements yields.
CrawledPoints == crawl_indent_points(elements).points

\* No line has a line break strictly inside it.
C22_NoBreakInside ==
    \A n \in 1..Len(last.lines) :
        LET pts == last.lines[n].indent_points IN
        \A k \in 2..(Len(pts) - 1) : ~pts[k].is_line_break

\* Every line break ends one line and, when a point follows it, starts the
\* next.
C22_SplitAfterBreaks ==
    \A k \in 1..Len(CrawledPoints) :
        LET p == CrawledPoints[k] IN
        p.is_line_break =>
            /\ \E n \in 1..Len(last.lines) :
                   last.lines[n].indent_points[Len(last.lines[n].indent_points)] = p
            /\ k < Len(CrawledPoints) =>
                   \E n \in 1..Len(last.lines) :
                       /\ Len(last.lines[n].indent_points) > 1
                       /\ last.lines[n].indent_points[1] = p

\* A line after a line break starts at the closing balance of its first
\* point; the first line, with no break before it, at 0.
C22_StartingBalance ==
    \A n \in 1..Len(last.lines) :
        LET pts == last.lines[n].indent_points IN
        last.lines[n].initial_indent_balance =
            IF pts[Len(pts)].last_line_break_idx # NoIdx
            THEN closing_indent_balance(pts[1])
            ELSE 0

\* C22: line grouping splits the indent points after each line break: a
\* line break is the last point of one line and the first of the next, no
\* line has a line break strictly inside it, and a line's balance is the
\* closing balance of its first point when a line break comes before it,
\* the one at element 0 included, and 0 for the first line with no break
\* before it.
C22_LineGrouping ==
    (last.op = "map_line_buffers" /\ last.ok) =>
        /\ C22_NoBreakInside
        /\ C22_SplitAfterBreaks
        /\ C22_StartingBalance

\* ------------------------------------------------------------ templated files
\* Files of whole lines.  A line is one block and its newline, with or
\* without an indent marker before the block, the first line without; the
\* block is code or the tag of one of two template blocks.
TemplateBlocks ==
    {Kind("code", 0), Kind("placeholder", 1), Kind("placeholder", 2)}
TemplateMarkers == {<<>>, <<Kind("indent", 1)>>, <<Kind("dedent", -1)>>}

\* Most lines of a templated file.
MaxTemplateLines == 4

Numbered(kinds) == [i \in 1..Len(kinds) |-> Seg(i, kinds[i].type, kinds[i].val)]

TemplateFiles ==
    LET f[n \in 0..MaxTemplateLines] ==
            IF n = 0 THEN {<<>>}
            ELSE {r \o m \o <<b, Kind("newline", 0)>> :
                      r \in f[n - 1], b \in TemplateBlocks,
                      m \in IF n = 1 THEN {<<>>} ELSE TemplateMarkers}
    IN  {Numbered(k) : k \in UNION {f[n] : n \in 1..MaxTemplateLines}}

InitTemplate ==
    /\ all_raws \in TemplateFiles
    /\ elements = elements_from_raw_segments(all_raws)
    /\ embodied_fixes = <<>>
    /\ depth_map = <<>>
    /\ uid = Len(all_raws) + 1
    /\ last = LintAt("parse", TRUE, <<>>, <<>>, 0, NoEval, NoEval)
    /\ nedits = 0

NextTemplate ==
    \/ MapLineBuffers
    \/ ReviseTemplatedLines

SpecTemplate == InitTemplate /\ [][NextTemplate]_vars

\* The template-only lines (0-based) of the lines found, and those of them
\* of block u.
TemplateOnly == templated_idxs(last.pre_lines, elements)
Members(u) ==
    {i \in TemplateOnly :
         block_uuid(template_segment(At(last.pre_lines, i), elements)) = u}

BalanceBefore(i) == At(last.pre_lines, i).initial_indent_balance
BalanceAfter(i) == At(last.lines, i).initial_indent_balance

\* The lines strictly between the first and the last line of block u.
Between(u) ==
    {i \in 0..(Len(last.pre_lines) - 1) :
         /\ \E m \in Members(u) : m < i
         /\ \E m \in Members(u) : i < m}

\* The candidates the lines of block u share that are below every line
\* between them.
Remaining(u) ==
    {c \in UNION {template_steps(At(last.pre_lines, m), elements) : m \in Members(u)} :
         /\ \A m \in Members(u) : c \in template_steps(At(last.pre_lines, m), elements)
         /\ \A i \in Between(u) : c < BalanceBefore(i)}

\* The balances of the lines of block u differ.
Differ(u) == \E m, n \in Members(u) : BalanceBefore(m) # BalanceBefore(n)

\* What reconciliation of the one group u makes of line i.
Reconciled(u, i) ==
    IF ~Differ(u) THEN BalanceBefore(i)
    ELSE IF Remaining(u) # {}
    THEN IF i \in Members(u) THEN SetMin(Remaining(u)) ELSE BalanceBefore(i)
    ELSE IF i \in Members(u) THEN SetMin({BalanceBefore(m) : m \in Members(u)})
    ELSE IF i \in Between(u) THEN BalanceBefore(i) - 1
    ELSE BalanceBefore(i)

\* The template-only lines are those of the one block u.
OneGroup(u) == Members(u) # {} /\ Members(u) = TemplateOnly

RelevantUntaken(line) ==
    LET first == line.indent_points[1] IN
    {k \in 1..Len(first.untaken_indents) :
         first.untaken_indents[k]
             <= line.initial_indent_balance
                    - (first.indent_impulse - first.indent_trough)}

\* C24: the desired indent units of a line are its balance, less the number
\* of the untaken indents of its first point that do not exceed the balance
\* minus (impulse - trough) of that point, plus the number of forced
\* indents; the untaken indents above that value are left out whatever the
\* trough, a trough of 0 on a line of revised balance included.
C24_DesiredUnits ==
    (last.op = "evaluate") =>
        desired_indent_units(EvaluatedLine, last.pre.forced_indents)
            = EvaluatedLine.initial_indent_balance
                  - Cardinality(RelevantUntaken(EvaluatedLine))
                  + Len(last.pre.forced_indents)

\* ------------------------------------------------------------ indented files
\* Files of code, newlines and indent markers, with or without the end of
\* file segment, through the indent pass once.
IndentedKinds ==
    {Kind("code", 0), Kind("newline", 0), Kind("indent", 1), Kind("dedent", -1)}

\* Longest indented file, the end of the file not counted.
MaxIndented == 6

IndentedFiles ==
    LET bodies == RunsOf(IndentedKinds, MaxIndented) \ {<<>>} IN
    bodies \cup {Append(b, Seg(Len(b) + 1, "end_of_file", 0)) : b \in bodies}

InitIndented ==
    /\ all_raws \in IndentedFiles
    /\ elements = elements_from_raw_segments(all_raws)
    /\ embodied_fixes = <<>>
    /\ depth_map = <<>>
    /\ uid = Len(all_raws) + 1
    /\ last = LintAt("parse", TRUE, <<>>, <<>>, 0, NoEval, NoEval)
    /\ nedits = 0

NextIndented ==
    \/ MapLineBuffers
    \/ ReviseTemplatedLines
    \/ ReviseCommentLines
    \/ EvaluateLine

SpecIndented == InitIndented /\ [][NextIndented]_vars

\* ------------------------------------------------------------ the way up
\* The last point of a line, its closing balance and its closing trough.
LastPoint(line) == line.indent_points[Len(line.indent_points)]
ClosingBalance(line) == closing_indent_balance(LastPoint(line))
ClosingTrough(line) ==
    LastPoint(line).initial_indent_balance
        + (IF LastPoint(line).indent_trough # 0
           THEN LastPoint(line).indent_trough
           ELSE LastPoint(line).indent_impulse)

\* The line closes above its balance at an indent its last point holds
\* untaken.
WayUp(line) ==
    /\ ClosingBalance(line) > line.initial_indent_balance
    /\ \E k \in 1..Len(LastPoint(line).untaken_indents) :
           LastPoint(line).untaken_indents[k] = ClosingTrough(line)

\* The points of the line (by place in it) that close at the closing trough.
Matching(line) ==
    {k \in 1..Len(line.indent_points) :
         closing_indent_balance(line.indent_points[k]) = ClosingTrough(line)}

\* C25: on the way up the matching point is always found: a line that
\* closes above its balance, with its closing trough in the untaken
\* indents of its last point, has a point that closes at the closing
\* trough, whatever the impulses of its points.
C25_MatchFound ==
    (last.op = "evaluate" /\ WayUp(EvaluatedLine)) =>
        Matching(EvaluatedLine) # {}

\* The first point of the line that closes at the closing trough.
FirstMatching(line) == line.indent_points[SetMin(Matching(line))]

\* The element at the place of point ip is a line break indented by units.
BrokenAt(elems, ip, units) ==
    /\ has_newline(At(elems, ip.idx).segments)
    /\ get_indent(At(elems, ip.idx)) = Repeat(single_indent, units)

\* The forced indents a line leaves when value is added to those found.
ForcedWith(value) ==
    SelectSeq(Append(last.pre.forced_indents, value),
              LAMBDA i : i <= ClosingBalance(EvaluatedLine))

\* A break forced on the way up is at the first point that closes at the
\* closing trough, indented to that balance less the point's untaken
\* indents, and no other point but the first of the line is touched.
C26_BreakPlaced ==
    LET ip == FirstMatching(EvaluatedLine) IN
    /\ BrokenAt(last.st.elements, ip,
                closing_indent_balance(ip) - Len(ip.untaken_indents))
    /\ \A k \in 2..Len(EvaluatedLine.indent_points) :
           LET q == EvaluatedLine.indent_points[k] IN
           q.idx # ip.idx =>
               At(last.st.elements, q.idx) = At(last.pre.elements, q.idx)

\* The balance the break was forced at is the one value added.
C26_ForcedValue ==
    LET ip == FirstMatching(EvaluatedLine) IN
    last.st.forced_indents = ForcedWith(closing_indent_balance(ip))

\* C26: a break forced on the way up is placed at the first point of the
\* line whose closing balance equals the closing trough, indented to that
\* balance less the number of that point's untaken indents, and that same
\* balance is the value added to the forced indents, one value at most a
\* line.
C26_WayUp ==
    (/\ last.op = "evaluate" /\ last.ok
     /\ WayUp(EvaluatedLine)) =>
        /\ C26_BreakPlaced
        /\ C26_ForcedValue
        /\ Len(last.st.forced_indents) <= Len(last.pre.forced_indents) + 1

\* ------------------------------------------------------------ the way down
\* The line closes below its balance.
WayDown(line) == ClosingBalance(line) < line.initial_indent_balance

\* x is one of the values of the sequence s.
Among(x, s) == \E k \in 1..Len(s) : s[k] = x

\* Point k of the line evaluated is one a break may be forced at on the
\* way down: not the last, not a line break, closing an indent.
Closes(k) ==
    LET ip == EvaluatedLine.indent_points[k] IN
    /\ k < Len(EvaluatedLine.indent_points)
    /\ ~ip.is_line_break
    /\ ip.indent_impulse < 0

\* The way down as evaluated, Forces(k) telling the points a break is
\* forced at: at those the element is a line break indented to the closing
\* balance of the point less its untaken indents plus the forced indents;
\* the others are left without a line break if they had none, and as they
\* were if they are not the first point of the line.
WayDownBreaks(Forces(_)) ==
    \A k \in 1..Len(EvaluatedLine.indent_points) :
        LET ip == EvaluatedLine.indent_points[k] IN
        IF Forces(k)
        THEN BrokenAt(last.st.elements, ip,
                      closing_indent_balance(ip) - Len(ip.untaken_indents)
                          + Len(last.pre.forced_indents))
        ELSE /\ ~ip.is_line_break =>
                    ~has_newline(At(last.st.elements, ip.idx).segments)
             /\ k >= 2 => At(last.st.elements, ip.idx) = At(last.pre.elements, ip.idx)

\* C27: on a line that closes below its balance a break is forced at a
\* point exactly when the point is not the last of the line, is not a line
\* break, has negative impulse and its balance before the point is neither
\* among its untaken indents nor among the forced indents; the break is
\* indented to the closing balance of the point less its untaken indents
\* plus the forced indents, and no break is forced anywhere else.
C27_WayDown ==
    (last.op = "evaluate" /\ last.ok /\ WayDown(EvaluatedLine)) =>
        WayDownBreaks(LAMBDA k :
            LET ip == EvaluatedLine.indent_points[k] IN
            /\ Closes(k)
            /\ ~Among(ip.initial_indent_balance, ip.untaken_indents)
            /\ ~Among(ip.initial_indent_balance, last.pre.forced_indents))

\* C27 amended: the break is forced exactly when the point is not the last,
\* is not a line break, has negative impulse and its balance before the
\* point is not an indent still untaken, that is, is not among its untaken
\* indents or is among the forced indents.
C27_WayDownAmended ==
    (last.op = "evaluate" /\ last.ok /\ WayDown(EvaluatedLine)) =>
        WayDownBreaks(LAMBDA k :
            LET ip == EvaluatedLine.indent_points[k] IN
            /\ Closes(k)
            /\ \/ ~Among(ip.initial_indent_balance, ip.untaken_indents)
               \/ Among(ip.initial_indent_balance, last.pre.forced_indents))

\* A break forced on the way down at a point that closes a forced indent.
C27_Witness ==
    /\ last.op = "evaluate" /\ last.ok /\ WayDown(EvaluatedLine)
    /\ \E k \in 1..Len(EvaluatedLine.indent_points) :
           LET ip == EvaluatedLine.indent_points[k] IN
           /\ Closes(k)
           /\ Among(ip.initial_indent_balance, ip.untaken_indents)
           /\ Among(ip.initial_indent_balance, last.pre.forced_indents)
           /\ has_newline(At(last.st.elements, ip.idx).segments)

\* ------------------------------------------------------------ forced indents
\* The forced indents found by the line evaluated that do not exceed its
\* closing balance.
KeptForced ==
    SelectSeq(last.pre.forced_indents,
              LAMBDA i : i <= ClosingBalance(EvaluatedLine))

\* C28: after the evaluation of a line the forced indents carried to the
\* next hold no value above the closing balance of the line, and the values
\* found at or below it are kept; before the first line there are none.
C28_ForcedPruned ==
    /\ last.op = "revise_comment_lines" => last.st.forced_indents = <<>>
    /\ (last.op = "evaluate" /\ last.i = 1) => last.pre.forced_indents = <<>>
    /\ (last.op = "evaluate" /\ last.ok) =>
           /\ \A k \in 1..Len(last.st.forced_indents) :
                  last.st.forced_indents[k] <= ClosingBalance(EvaluatedLine)
           /\ IsPrefix(KeptForced, last.st.forced_indents)

\* A line that closes below a forced indent it found, and drops it.
C28_Witness ==
    /\ last.op = "evaluate" /\ last.ok
    /\ Len(KeptForced) < Len(last.pre.forced_indents)
    /\ last.st.forced_indents = KeptForced

\* ------------------------------------------------------------ all groups
\* The lines of the two blocks interleave: one of a block lies between two
\* of the other, and one of the other between two of the first.
Interleaved ==
    \E a, c \in Members(1) : \E b, d \in Members(2) :
        \/ a < b /\ b < c /\ c < d
        \/ b < a /\ a < d /\ d < c

\* The template-only lines of each block have one balance.
Aligned ==
    \A u \in {1, 2} :
        \A m, n \in Members(u) : BalanceAfter(m) = BalanceAfter(n)

NeverBelowZero ==
    \A n \in 1..Len(all_raws) : running_sum(all_raws, n) >= 0

\* The balances of the lines after both reconciliations.
C30_Balances ==
    last.op \in {"revise_comment_lines", "evaluate"} =>
        \A n \in 1..Len(last.lines) : last.lines[n].initial_indent_balance >= 0

\* The units of the starting indent of the line evaluated.
C30_DesiredUnits ==
    last.op = "evaluate" =>
        desired_indent_units(EvaluatedLine, last.pre.forced_indents) >= 0

\* The units of the break forced on the way up.
C30_WayUpUnits ==
    (/\ last.op = "evaluate"
     /\ WayUp(EvaluatedLine) /\ Matching(EvaluatedLine) # {}) =>
        closing_indent_balance(FirstMatching(EvaluatedLine))
            - Len(FirstMatching(EvaluatedLine).untaken_indents) >= 0

\* The units of the breaks forced on the way down.
C30_WayDownUnits ==
    (last.op = "evaluate" /\ WayDown(EvaluatedLine)) =>
        \A k \in 1..(Len(EvaluatedLine.indent_points) - 1) :
            LET ip == EvaluatedLine.indent_points[k] IN
            way_down_forces(ip, last.pre.forced_indents) =>
                closing_indent_balance(ip) - Len(ip.untaken_indents)
                    + Len(last.pre.forced_indents) >= 0

\* C30: indent values never go negative: in a file whose markers never
\* close more than was opened, every line has a balance of 0 or more after
\* template and comment reconciliation, and the desired indent units of
\* every line and the units of every break forced on the way up or on the
\* way down are 0 or more.
C30_NonNegative ==
    NeverBelowZero =>
        /\ C30_Balances
        /\ C30_DesiredUnits
        /\ C30_WayUpUnits
        /\ C30_WayDownUnits

====
